---- MODULE Spec2Model ----
(***************************************************************************)
(* Signal aggregation, risk gate and trade decision of the trading         *)
(* dashboard (masterAnalysis, smartRiskManagement, realTimeAIAnalysis).    *)
(*                                                                         *)
(* JavaScript numbers are modelled as exact fractions [n, d] with d > 0;   *)
(* d = 0 stands for the two non-finite results a division can produce:     *)
(* n = 0 is NaN (0/0), n > 0 is Infinity (x/0).  Rounding error of the     *)
(* IEEE doubles is not modelled.                                           *)
(***************************************************************************)
EXTENDS Integers, Sequences, FiniteSets, TLC

VARIABLES
    signals,      \* the array of signal sources handed to the aggregator
    aggregate,    \* what the aggregator returned for it, or NoAggregate
    pc,           \* position of generateMasterAnalysis
    priceData,    \* what the fetched candles look like to the analysis
    components,   \* results of the five awaited component analyses
    analysis,     \* the MasterAnalysis returned to the caller
    candles,      \* candles handed to analyzeSmartRisk
    riskAnalysis, \* the RiskAnalysis it returned, or NoRisk
    positionSize, \* what calculatePositionSize returned, or NoSize
    klines,       \* closes and volumes handed to analyzeCryptoTechnicals
    technicals,   \* the CryptoAnalysis it returned, or NoTechnicals
    sentimentPc,  \* position of analyzeAdvancedSentiment
    sentimentArgs, \* its arguments: the price window and whether apiKey is usable
    sentimentLocals, \* its local priceAnalysis, computed before the fetch
    aiResponse,   \* what the AI provider answered to the fetch, or "none"
    sentimentAnalysis, \* the AdvancedSentimentAnalysis it resolved with, or NoSentiment
    componentPc,  \* lifecycle of CryptoAnalysisComponent: initial, mounted, unmounted
    fetchPc,      \* position of its initializeData
    bars,         \* its priceData state: the timestamps of the bars, in order
    now,          \* the exchange's clock: the index of the minute that is open
    sockets,      \* every WebSocket the client created: readyState and next kline
    wsClient,     \* the BinanceWebSocketClient: its ws and reconnectAttempts
    timers,       \* pending setTimeout callbacks of handleReconnect: their delays
    priceUpdates, \* how many times the client invoked onPriceUpdate
    monitor,      \* AutoTradingMonitor: its props, state, refs, timers and runs
    trendCloses,  \* the closes handed to analyzeTrend and analyzeRealMarketStructure
    trendResult,  \* what analyzeTrend returned for them, or NoTrend
    structureResult \* what analyzeRealMarketStructure returned for them, or NoStructure

vars == <<signals, aggregate, pc, priceData, components, analysis,
          candles, riskAnalysis, positionSize, klines, technicals,
          sentimentPc, sentimentArgs, sentimentLocals, aiResponse,
          sentimentAnalysis,
          componentPc, fetchPc, bars, now, sockets, wsClient, timers, priceUpdates,
          monitor, trendCloses, trendResult, structureResult>>

aggVars == <<signals, aggregate>>
masterVars == <<pc, priceData, components, analysis>>
riskVars == <<candles, riskAnalysis, positionSize>>
techVars == <<klines, technicals>>
sentimentVars ==
    <<sentimentPc, sentimentArgs, sentimentLocals, aiResponse, sentimentAnalysis>>
liveVars ==
    <<componentPc, fetchPc, bars, now, sockets, wsClient, timers, priceUpdates>>
monitorVars == <<monitor>>
trendVars == <<trendCloses, trendResult, structureResult>>

----------------------------------------------------------------------------
(* Numbers *)

RECURSIVE GCD(_, _)
GCD(a, b) == IF b = 0 THEN a ELSE GCD(b, a % b)

Abs(x) == IF x < 0 THEN -x ELSE x

\* the fraction n/d in lowest terms
Num(n, d) ==
    LET g == GCD(Abs(n), d)
    IN  [n |-> n \div g, d |-> d \div g]

Int2Num(i) == [n |-> i, d |-> 1]
NaN == [n |-> 0, d |-> 0]
Infinity == [n |-> 1, d |-> 0]

IsFinite(x) == x.d > 0
IsNaN(x) == x.d = 0 /\ x.n = 0

\* JavaScript a / b for a >= 0, b >= 0
FDiv(a, b) ==
    IF IsNaN(a) \/ IsNaN(b) THEN NaN
    ELSE IF ~IsFinite(a) THEN (IF IsFinite(b) THEN Infinity ELSE NaN)
    ELSE IF ~IsFinite(b) THEN Int2Num(0)
    ELSE IF b.n = 0 THEN (IF a.n = 0 THEN NaN ELSE Infinity)
    ELSE LET g == GCD(Abs(a.n), Abs(b.n))
             h == GCD(a.d, b.d)
         IN  Num((a.n \div g) * (b.d \div h), (a.d \div h) * (b.n \div g))

\* JavaScript a * b for a >= 0, b >= 0
FMul(a, b) ==
    IF IsNaN(a) \/ IsNaN(b) THEN NaN
    ELSE IF ~IsFinite(a) THEN (IF b.d > 0 /\ b.n = 0 THEN NaN ELSE Infinity)
    ELSE IF ~IsFinite(b) THEN (IF a.n = 0 THEN NaN ELSE Infinity)
    ELSE LET g == GCD(Abs(a.n), b.d)
             h == GCD(Abs(b.n), a.d)
         IN  Num((a.n \div g) * (b.n \div h), (a.d \div h) * (b.d \div g))

FAdd(a, b) ==
    IF IsNaN(a) \/ IsNaN(b) THEN NaN
    ELSE IF ~IsFinite(a) \/ ~IsFinite(b) THEN Infinity
    ELSE LET g == GCD(a.d, b.d)
         IN  Num(a.n * (b.d \div g) + b.n * (a.d \div g), (a.d \div g) * b.d)

\* a < b, a > b, ... : every comparison with NaN is false
FLt(a, b) ==
    /\ ~IsNaN(a) /\ ~IsNaN(b)
    /\ IF ~IsFinite(a) THEN FALSE
       ELSE IF ~IsFinite(b) THEN TRUE
       ELSE LET g == GCD(a.d, b.d)
            IN  a.n * (b.d \div g) < b.n * (a.d \div g)
FGt(a, b) == FLt(b, a)
FLeq(a, b) == ~IsNaN(a) /\ ~IsNaN(b) /\ ~FLt(b, a)
FGeq(a, b) == FLeq(b, a)

\* Math.min / Math.max: NaN if either argument is NaN
FMin(a, b) == IF IsNaN(a) \/ IsNaN(b) THEN NaN ELSE IF FLt(b, a) THEN b ELSE a
FMax(a, b) == IF IsNaN(a) \/ IsNaN(b) THEN NaN ELSE IF FLt(a, b) THEN b ELSE a

\* JavaScript a - b for finite or NaN operands
FSub(a, b) ==
    IF ~IsFinite(a) \/ ~IsFinite(b) THEN NaN
    ELSE LET g == GCD(a.d, b.d)
         IN  Num(a.n * (b.d \div g) - b.n * (a.d \div g), (a.d \div g) * b.d)

\* Math.abs
FAbs(a) == [n |-> Abs(a.n), d |-> a.d]

Max2(a, b) == IF a >= b THEN a ELSE b
Max3(a, b, c) == Max2(a, Max2(b, c))

----------------------------------------------------------------------------
(* Bounds and input sets *)

MaxSources == 2

SignalLabels == {"STRONG_BUY", "BUY", "NEUTRAL", "SELL", "STRONG_SELL"}
SentimentLabels == {"BULLISH", "NEUTRAL", "BEARISH"}
Labels == SignalLabels \cup SentimentLabels

\* declared weight in hundredths and confidence in percent of a source
WeightsAndConfidences ==
    {<<0, 90>>, <<100, 0>>, <<100, 50>>, <<100, 90>>, <<25, 90>>}

Sources ==
    {[signal |-> l, weight |-> p[1], confidence |-> p[2]] :
        l \in Labels, p \in WeightsAndConfidences}

NoAggregate == [overallSignal |-> "none"]
NoRisk == [riskLevel |-> "none"]
NoSize == [size |-> "none"]
NoTechnicals == [overallSignal |-> "none"]
NoSentiment == [overallSentiment |-> "none"]
NoArgs == [closes |-> <<>>, volumes |-> <<>>, apiKeyUsable |-> FALSE]
NoLocals == [priceAnalysis |-> "none"]

----------------------------------------------------------------------------
(* The aggregator *)

IsBuy(s) == s \in {"STRONG_BUY", "BUY"}
IsSell(s) == s \in {"STRONG_SELL", "SELL"}
IsStrong(s) == s \in {"STRONG_BUY", "STRONG_SELL"}

signalScore_bullishAsStrongBuy(signal) ==
    CASE signal = "STRONG_BUY" -> 100
      [] signal = "BUY" -> 75
      [] signal = "NEUTRAL" -> 50
      [] signal = "SELL" -> 25
      [] signal = "STRONG_SELL" -> 0
      [] signal = "BULLISH" -> 100
      [] signal = "BEARISH" -> 25
      [] OTHER -> 0

signalScore(signal) ==
    CASE signal = "STRONG_BUY" -> 100
      [] signal = "BUY" -> 75
      [] signal = "NEUTRAL" -> 50
      [] signal = "SELL" -> 25
      [] signal = "STRONG_SELL" -> 0
      [] signal = "BULLISH" -> 75
      [] signal = "BEARISH" -> 25
      [] OTHER -> 0

adjustedWeight_noConfidence(s) == s.weight * 100

\* weight * (confidence / 100), in units of 1/10000
adjustedWeight(s) == s.weight * s.confidence

\* weightedScore += signalScore * weight, the confidence left out
RECURSIVE weightedScore_declaredWeight(_)
weightedScore_declaredWeight(sigs) ==
    IF sigs = <<>> THEN 0
    ELSE signalScore(Head(sigs).signal) * Head(sigs).weight * 100
         + weightedScore_declaredWeight(Tail(sigs))

RECURSIVE weightedScore(_)
weightedScore(sigs) ==
    IF sigs = <<>> THEN 0
    ELSE signalScore(Head(sigs).signal) * adjustedWeight(Head(sigs))
         + weightedScore(Tail(sigs))

RECURSIVE totalWeight(_)
totalWeight(sigs) ==
    IF sigs = <<>> THEN 0
    ELSE adjustedWeight(Head(sigs)) + totalWeight(Tail(sigs))

finalScore_unguarded(sigs) ==
    FDiv(Int2Num(weightedScore(sigs)), Int2Num(totalWeight(sigs)))

finalScore(sigs) ==
    IF totalWeight(sigs) > 0
    THEN FDiv(Int2Num(weightedScore(sigs)), Int2Num(totalWeight(sigs)))
    ELSE Int2Num(50)

\* the SELL threshold tested before the STRONG_SELL threshold
calculateMasterSignal_sellFirst(sigs) ==
    LET fs == finalScore(sigs)
    IN  IF FGeq(fs, Int2Num(85)) THEN "STRONG_BUY"
        ELSE IF FGeq(fs, Int2Num(65)) THEN "BUY"
        ELSE IF FLeq(fs, Int2Num(35)) THEN "SELL"
        ELSE IF FLeq(fs, Int2Num(15)) THEN "STRONG_SELL"
        ELSE "NEUTRAL"

calculateMasterSignal(sigs) ==
    LET fs == finalScore(sigs)
    IN  IF FGeq(fs, Int2Num(85)) THEN "STRONG_BUY"
        ELSE IF FGeq(fs, Int2Num(65)) THEN "BUY"
        ELSE IF FLeq(fs, Int2Num(15)) THEN "STRONG_SELL"
        ELSE IF FLeq(fs, Int2Num(35)) THEN "SELL"
        ELSE "NEUTRAL"

IsBullish(s) == IsBuy(s) \/ s = "BULLISH"
IsBearish(s) == IsSell(s) \/ s = "BEARISH"
IsNeutral(s) == s = "NEUTRAL"

bullishSignals(sigs) == Cardinality({i \in 1..Len(sigs) : IsBullish(sigs[i].signal)})
bearishSignals(sigs) == Cardinality({i \in 1..Len(sigs) : IsBearish(sigs[i].signal)})
neutralSignals(sigs) == Cardinality({i \in 1..Len(sigs) : IsNeutral(sigs[i].signal)})

maxAgreement(sigs) ==
    Max3(bullishSignals(sigs), bearishSignals(sigs), neutralSignals(sigs))

calculateSignalConsensus(sigs) ==
    FDiv(Int2Num(maxAgreement(sigs)), Int2Num(Len(sigs)))

RECURSIVE SumConfidence(_)
SumConfidence(sigs) ==
    IF sigs = <<>> THEN 0 ELSE Head(sigs).confidence + SumConfidence(Tail(sigs))

calculateMasterConfidence(sigs) ==
    LET avgConfidence == FDiv(Int2Num(SumConfidence(sigs)), Int2Num(Len(sigs)))
        signalConsensus == calculateSignalConsensus(sigs)
    IN  FMin(Int2Num(95), FAdd(avgConfidence, FMul(signalConsensus, Int2Num(10))))

\* the signals array is filled one source after the other
AddSource(s) ==
    /\ aggregate = NoAggregate
    /\ Len(signals) < MaxSources
    /\ signals' = Append(signals, s)
    /\ UNCHANGED <<aggregate, masterVars, riskVars, techVars, sentimentVars, liveVars, monitorVars, trendVars>>

\* calculateMasterSignal and calculateMasterConfidence run on the array
Aggregate ==
    /\ aggregate = NoAggregate
    /\ Len(signals) >= 1
    /\ aggregate' = [overallSignal |-> calculateMasterSignal(signals),
                     finalScore |-> finalScore(signals),
                     masterConfidence |-> calculateMasterConfidence(signals)]
    /\ UNCHANGED <<signals, masterVars, riskVars, techVars, sentimentVars, liveVars, monitorVars, trendVars>>

\* the exchange's clock starts two minutes before the end of an hour
StartMinute == 238

NoSignal == [signal |-> "none"]
NoRecommendation == [action |-> "none"]

\* AutoTradingMonitor after its first render with the given apiKey prop:
\* isEnabled defaults to false
FreshMonitor(apiKey) ==
    [apiKey |-> apiKey,
     isActive |-> FALSE,
     currentSignal |-> NoSignal,
     currentRecommendation |-> NoRecommendation,
     signalHistory |-> <<>>,
     nextUpdateIn |-> 0,
     isAnalyzing |-> FALSE,
     analysisCount |-> 0,
     intervalRef |-> FALSE,
     countdownRef |-> FALSE,
     intervals |-> 0,
     countdowns |-> 0,
     runs |-> <<>>,
     clock |-> 0]

NoTrend == [direction |-> "none"]
NoStructure == [trend |-> "none"]

InitExceptMonitor ==
    /\ signals = <<>>
    /\ aggregate = NoAggregate
    /\ pc = "idle"
    /\ priceData = [len |-> 0]
    /\ components = [state |-> "none"]
    /\ analysis = [path |-> "none"]
    /\ candles = <<>>
    /\ riskAnalysis = NoRisk
    /\ positionSize = NoSize
    /\ klines = [closes |-> <<>>, volumes |-> <<>>]
    /\ technicals = NoTechnicals
    /\ sentimentPc = "idle"
    /\ sentimentArgs = NoArgs
    /\ sentimentLocals = NoLocals
    /\ aiResponse = "none"
    /\ sentimentAnalysis = NoSentiment
    /\ componentPc = "initial"
    /\ fetchPc = "idle"
    /\ bars = <<>>
    /\ now = StartMinute
    /\ sockets = <<>>
    /\ wsClient = [ws |-> 0, reconnectAttempts |-> 0]
    /\ timers = <<>>
    /\ priceUpdates = 0
    /\ trendCloses = <<>>
    /\ trendResult = NoTrend
    /\ structureResult = NoStructure

InitCommon ==
    /\ InitExceptMonitor
    /\ monitor = FreshMonitor("valid")

InitAgg == InitCommon

NextAgg ==
    \/ \E s \in Sources : AddSource(s)
    \/ Aggregate

SpecAgg == InitAgg /\ [][NextAgg]_vars

----------------------------------------------------------------------------
(* generateMasterAnalysis *)

\* What the analysis reads off the fetched candles: their number, the root
\* mean square of the close-to-close returns in units of 0.001, the last
\* volume over the average volume in tenths, and the trend with its strength
\* as analyzeRealMarketStructure derives them from SMA20 and SMA50.
Lengths == {10, 12, 30, 60, 100}
Volatilities == {10, 25, 40, 60}
VolumeSpikes == {10, 35}
MarketStructures ==
    { [trend |-> "SIDEWAYS", strength |-> 5],
      [trend |-> "UPTREND", strength |-> 90],
      [trend |-> "DOWNTREND", strength |-> 40] }

PriceWindows ==
    [len : Lengths, volatility : Volatilities, volumeSpike : VolumeSpikes,
     structure : MarketStructures]

\* generateCryptoComprehensiveAnalysis: one of the five labels with a rounded
\* confidence of 40 (its own fallback) to 95
ComprehensiveOutputs ==
    { [overallSignal |-> "NEUTRAL", confidenceScore |-> 40],
      [overallSignal |-> "STRONG_BUY", confidenceScore |-> 95],
      [overallSignal |-> "BUY", confidenceScore |-> 65],
      [overallSignal |-> "SELL", confidenceScore |-> 65],
      [overallSignal |-> "STRONG_SELL", confidenceScore |-> 95] }

\* analyzeAdvancedSentiment
SentimentOutputs ==
    { [overallSentiment |-> "BULLISH", confidence |-> 90],
      [overallSentiment |-> "BULLISH", confidence |-> 48],
      [overallSentiment |-> "NEUTRAL", confidence |-> 50],
      [overallSentiment |-> "BEARISH", confidence |-> 90] }

\* analyzePatterns: the label and confidence it derives from the share of
\* bullish patterns, plus 5 when the AI request was answered
analyzePatterns(bullishPercentage, aiAnswered) ==
    LET base ==
            IF bullishPercentage > 75 THEN [overallSignal |-> "STRONG_BUY", confidence |-> 85]
            ELSE IF bullishPercentage > 60 THEN [overallSignal |-> "BUY", confidence |-> 70]
            ELSE IF bullishPercentage < 25 THEN [overallSignal |-> "STRONG_SELL", confidence |-> 85]
            ELSE IF bullishPercentage < 40 THEN [overallSignal |-> "SELL", confidence |-> 70]
            ELSE [overallSignal |-> "NEUTRAL", confidence |-> 50]
    IN  IF aiAnswered
        THEN [base EXCEPT !.confidence = IF @ + 5 > 95 THEN 95 ELSE @ + 5]
        ELSE base

PatternInputs == {<<90, TRUE>>, <<50, FALSE>>, <<30, FALSE>>}

\* calculateEventImpact over the eight events of generateUpcomingEvents:
\* three HIGH (3), three MEDIUM (2), two LOW (1), each times
\* (1 + |deviation| / 100); a deviation of 0/0 makes the sum NaN
calculateEventImpact(weightedDeviation) ==
    IF IsNaN(weightedDeviation) THEN NaN
    ELSE FAdd(Int2Num(3 * 3 + 3 * 2 + 2 * 1), weightedDeviation)

WeightedDeviations == {Int2Num(0), Int2Num(8), NaN}

\* runBacktest: overall win rate in percent, profit factor in tenths
BacktestOutputs ==
    { [winRate |-> 70, profitFactor |-> 20],
      [winRate |-> 50, profitFactor |-> 10],
      [winRate |-> 30, profitFactor |-> 7] }

ComponentResults ==
    [comprehensive : ComprehensiveOutputs,
     sentiment : SentimentOutputs,
     patterns : {analyzePatterns(i[1], i[2]) : i \in PatternInputs},
     calendar : {[impactScore |-> calculateEventImpact(w)] : w \in WeightedDeviations},
     backtest : BacktestOutputs]

analyzeRealMarketStructure(pd) == pd.structure

\* the risk level and score analyzeRealRisk sets from the volatility
volatilityBand(pd) ==
    IF pd.volatility > 50 THEN [riskLevel |-> "HIGH", riskScore |-> 80]
    ELSE IF pd.volatility > 30 THEN [riskLevel |-> "MEDIUM", riskScore |-> 60]
    ELSE IF pd.volatility < 20 THEN [riskLevel |-> "LOW", riskScore |-> 30]
    ELSE [riskLevel |-> "MEDIUM", riskScore |-> 50]

\* volumeSpike > 3 || volumeSpike < 0.3
isUnusualVolume(pd) == pd.volumeSpike > 30 \/ pd.volumeSpike < 3

analyzeRealRisk(pd) ==
    LET base == volatilityBand(pd)
        unusual == isUnusualVolume(pd)
        level ==
            IF ~unusual THEN base.riskLevel
            ELSE IF base.riskLevel = "LOW" THEN "MEDIUM"
            ELSE IF base.riskLevel = "MEDIUM" THEN "HIGH"
            ELSE base.riskLevel
        score == IF unusual THEN base.riskScore + 20 ELSE base.riskScore
    IN  [riskLevel |-> level, riskScore |-> IF score > 100 THEN 100 ELSE score]

getMarketStructureSignal(structure) ==
    IF structure.trend = "UPTREND" /\ structure.strength > 70 THEN "STRONG_BUY"
    ELSE IF structure.trend = "UPTREND" THEN "BUY"
    ELSE IF structure.trend = "DOWNTREND" /\ structure.strength > 70 THEN "STRONG_SELL"
    ELSE IF structure.trend = "DOWNTREND" THEN "SELL"
    ELSE "NEUTRAL"

getBacktestSignal(backtest) ==
    IF backtest.winRate > 65 /\ backtest.profitFactor > 15 THEN "STRONG_BUY"
    ELSE IF backtest.winRate > 55 /\ backtest.profitFactor > 12 THEN "BUY"
    ELSE IF backtest.winRate < 35 \/ backtest.profitFactor < 8 THEN "SELL"
    ELSE IF backtest.winRate < 25 \/ backtest.profitFactor < 6 THEN "STRONG_SELL"
    ELSE "NEUTRAL"

\* the signals array of generateMasterAnalysis
masterSignals(c, marketStructure) ==
    << [signal |-> c.comprehensive.overallSignal, weight |-> 30,
        confidence |-> c.comprehensive.confidenceScore],
       [signal |-> c.sentiment.overallSentiment, weight |-> 25,
        confidence |-> c.sentiment.confidence],
       [signal |-> getMarketStructureSignal(marketStructure), weight |-> 20,
        confidence |-> marketStructure.strength],
       [signal |-> c.patterns.overallSignal, weight |-> 15,
        confidence |-> c.patterns.confidence],
       [signal |-> getBacktestSignal(c.backtest), weight |-> 10,
        confidence |-> c.backtest.winRate] >>

calculateAccuracyScore(sigs, calendar, dataPoints) ==
    LET quality == IF dataPoints >= 100 THEN 20 ELSE IF dataPoints >= 50 THEN 10 ELSE 0
        consensus == calculateSignalConsensus(sigs)
        events == IF FGt(calendar.impactScore, Int2Num(15)) THEN -10
                  ELSE IF FLt(calendar.impactScore, Int2Num(5)) THEN 5
                  ELSE 0
        baseAccuracy == FAdd(Int2Num(60 + quality + events), FMul(consensus, Int2Num(15)))
    IN  FMax(Int2Num(45), FMin(Int2Num(95), baseAccuracy))

determineShouldTrade_noCalendar(signal, confidence, risk, calendar, dataPoints) ==
    IF signal = "NEUTRAL" THEN FALSE
    ELSE IF FLt(confidence, Int2Num(60)) THEN FALSE
    ELSE IF dataPoints < 50 THEN FALSE
    ELSE IF risk.riskLevel = "EXTREME" THEN FALSE
    ELSE IF IsStrong(signal) /\ FGt(confidence, Int2Num(75)) THEN TRUE
    ELSE IF FGt(confidence, Int2Num(70)) /\ risk.riskLevel = "LOW" THEN TRUE
    ELSE FALSE

determineShouldTrade_strongOverride(signal, confidence, risk, calendar, dataPoints) ==
    IF signal = "NEUTRAL" THEN FALSE
    ELSE IF FLt(confidence, Int2Num(60)) THEN FALSE
    ELSE IF dataPoints < 50 THEN FALSE
    ELSE IF risk.riskLevel = "EXTREME" THEN FALSE
    ELSE IF IsStrong(signal) /\ FGt(confidence, Int2Num(75)) THEN TRUE
    ELSE IF FGt(calendar.impactScore, Int2Num(20)) THEN FALSE
    ELSE IF FGt(confidence, Int2Num(70)) /\ risk.riskLevel = "LOW" THEN TRUE
    ELSE FALSE

determineShouldTrade_strongOnly(signal, confidence, risk, calendar, dataPoints) ==
    IF signal = "NEUTRAL" THEN FALSE
    ELSE IF FLt(confidence, Int2Num(60)) THEN FALSE
    ELSE IF dataPoints < 50 THEN FALSE
    ELSE IF risk.riskLevel = "EXTREME" THEN FALSE
    ELSE IF FGt(calendar.impactScore, Int2Num(20)) THEN FALSE
    ELSE IF IsStrong(signal) /\ FGt(confidence, Int2Num(75)) THEN TRUE
    ELSE FALSE

determineShouldTrade_anyDataPoints(signal, confidence, risk, calendar, dataPoints) ==
    IF signal = "NEUTRAL" THEN FALSE
    ELSE IF FLt(confidence, Int2Num(60)) THEN FALSE
    ELSE IF risk.riskLevel = "EXTREME" THEN FALSE
    ELSE IF FGt(calendar.impactScore, Int2Num(20)) THEN FALSE
    ELSE IF IsStrong(signal) /\ FGt(confidence, Int2Num(75)) THEN TRUE
    ELSE IF FGt(confidence, Int2Num(70)) /\ risk.riskLevel = "LOW" THEN TRUE
    ELSE FALSE

determineShouldTrade(signal, confidence, risk, calendar, dataPoints) ==
    IF signal = "NEUTRAL" THEN FALSE
    ELSE IF FLt(confidence, Int2Num(60)) THEN FALSE
    ELSE IF dataPoints < 50 THEN FALSE
    ELSE IF risk.riskLevel = "EXTREME" THEN FALSE
    ELSE IF FGt(calendar.impactScore, Int2Num(20)) THEN FALSE
    ELSE IF IsStrong(signal) /\ FGt(confidence, Int2Num(75)) THEN TRUE
    ELSE IF FGt(confidence, Int2Num(70)) /\ risk.riskLevel = "LOW" THEN TRUE
    ELSE FALSE

calculateFinalRiskLevel(risk, calendar, sentiment) ==
    LET riskScore ==
            risk.riskScore
            + (IF FGt(calendar.impactScore, Int2Num(20)) THEN 20
               ELSE IF FGt(calendar.impactScore, Int2Num(10)) THEN 10 ELSE 0)
            + (IF sentiment.confidence < 50 THEN 15 ELSE 0)
    IN  IF riskScore >= 90 THEN "EXTREME"
        ELSE IF riskScore >= 70 THEN "HIGH"
        ELSE IF riskScore >= 40 THEN "MEDIUM"
        ELSE "LOW"

\* the try block after the awaits, when nothing throws
masterResult(pd, c) ==
    LET marketStructure == analyzeRealMarketStructure(pd)
        risk == analyzeRealRisk(pd)
        sigs == masterSignals(c, marketStructure)
        masterSignal == calculateMasterSignal(sigs)
        masterConfidence == calculateMasterConfidence(sigs)
    IN  [path |-> "normal",
         overallSignal |-> masterSignal,
         masterConfidence |-> masterConfidence,
         accuracyScore |-> calculateAccuracyScore(sigs, c.calendar, pd.len),
         shouldTrade |-> determineShouldTrade(masterSignal, masterConfidence, risk,
                                              c.calendar, pd.len),
         riskLevel |-> calculateFinalRiskLevel(risk, c.calendar, c.sentiment)]

fallbackAnalysis_simulated ==
    [path |-> "fallback",
     overallSignal |-> "NEUTRAL",
     masterConfidence |-> Int2Num(50),
     accuracyScore |-> Int2Num(65),
     shouldTrade |-> FALSE,
     riskLevel |-> "HIGH"]

\* a catch block that answers with a default directional label
fallbackAnalysis_defaultBuy ==
    [path |-> "fallback",
     overallSignal |-> "BUY",
     masterConfidence |-> Int2Num(0),
     accuracyScore |-> Int2Num(0),
     shouldTrade |-> FALSE,
     riskLevel |-> "EXTREME"]

\* the catch block
fallbackAnalysis ==
    [path |-> "fallback",
     overallSignal |-> "NEUTRAL",
     masterConfidence |-> Int2Num(0),
     accuracyScore |-> Int2Num(0),
     shouldTrade |-> FALSE,
     riskLevel |-> "EXTREME"]

\* generateEducationalAnalysis reads priceData[priceData.length - 24].close,
\* a TypeError when there are fewer than 24 candles
educationalAnalysisThrows(pd) == pd.len < 24

FannedOutSources == {"comprehensive", "sentiment", "patterns", "calendar", "backtest"}

\* analyzeAdvancedSentiment(priceData, apiKey) rejects on exactly 10 candles:
\* analyzePriceAction reduces the empty closes.slice(-20, -10)
advancedSentimentRejects(pd) == pd.len = 10

\* await fetchBinanceKlines resolves
FetchKlines(pd) ==
    /\ pc = "idle"
    /\ priceData' = pd
    /\ pc' = "fetched"
    /\ UNCHANGED <<components, analysis, aggVars, riskVars, techVars, sentimentVars, liveVars, monitorVars, trendVars>>

\* await fetchBinanceKlines rejects
FetchFails ==
    /\ pc = "idle"
    /\ analysis' = fallbackAnalysis
    /\ pc' = "done"
    /\ UNCHANGED <<priceData, components, aggVars, riskVars, techVars, sentimentVars, liveVars, monitorVars, trendVars>>

\* Promise.all resolves with the five component results
ComponentsResolve(c) ==
    /\ pc = "fetched"
    /\ ~advancedSentimentRejects(priceData)
    /\ components' = c
    /\ pc' = "joined"
    /\ UNCHANGED <<priceData, analysis, aggVars, riskVars, techVars, sentimentVars, liveVars, monitorVars, trendVars>>

\* Promise.all rejects because one of the five promises rejected: the results
\* of the other four are dropped and the catch block runs
ComponentRejects(failed) ==
    /\ pc = "fetched"
    /\ advancedSentimentRejects(priceData) => failed = "sentiment"
    /\ components' = [state |-> "rejected", failed |-> failed]
    /\ analysis' = fallbackAnalysis
    /\ pc' = "done"
    /\ UNCHANGED <<priceData, aggVars, riskVars, techVars, sentimentVars, liveVars, monitorVars, trendVars>>

\* the rest of the try block, up to the return
Derive ==
    /\ pc = "joined"
    /\ analysis' = IF educationalAnalysisThrows(priceData)
                   THEN fallbackAnalysis
                   ELSE masterResult(priceData, components)
    /\ pc' = "done"
    /\ UNCHANGED <<priceData, components, aggVars, riskVars, techVars, sentimentVars, liveVars, monitorVars, trendVars>>

Init == InitCommon

Next ==
    \/ \E pd \in PriceWindows : FetchKlines(pd)
    \/ FetchFails
    \/ \E c \in ComponentResults : ComponentsResolve(c)
    \/ \E failed \in FannedOutSources : ComponentRejects(failed)
    \/ Derive

Spec == Init /\ [][Next]_vars

----------------------------------------------------------------------------
(* The risk gate: analyzeSmartRisk and calculatePositionSize *)

MaxBars == 21

\* candles in points of 0.0001
Flat == [high |-> 10850, low |-> 10850, close |-> 10850]
Ranging == [high |-> 10870, low |-> 10840, close |-> 10860]
Wide == [high |-> 10950, low |-> 10800, close |-> 10900]

\* a window of n candles: flat ones, then k ranging ones, then j wide ones
Window(n, k, j) ==
    [i \in 1..n |-> IF i > n - j THEN Wide
                    ELSE IF i > n - j - k THEN Ranging
                    ELSE Flat]

Windows == {Window(n, k, j) : n \in 0..MaxBars, k \in 0..3, j \in 0..1}

Price(points) == Num(points, 10000)

RECURSIVE SumTrueRange(_, _, _)
SumTrueRange(pd, first, index) ==
    IF index > Len(pd) THEN 0
    ELSE (IF index = first
          THEN pd[index].high - pd[index].low
          ELSE Max3(pd[index].high - pd[index].low,
                    Abs(pd[index].high - pd[index - 1].close),
                    Abs(pd[index].low - pd[index - 1].close)))
         + SumTrueRange(pd, first, index + 1)

calculateATR(pd) ==
    IF Len(pd) < 14 THEN Num(1, 1000)
    ELSE FDiv(Price(SumTrueRange(pd, Len(pd) - 13, Len(pd) - 13)), Int2Num(14))

\* the close-to-close changes among the last 20 candles that are not zero
\* (the first of the 20 contributes a return of 0, which is filtered out)
NonZeroReturns(pd) ==
    { <<pd[i - 1].close, pd[i].close>> :
        i \in {j \in (Len(pd) - 18)..Len(pd) : pd[j].close # pd[j - 1].close} }

\* Math.log cannot be computed here: a window whose non-zero returns differ
\* has the annualised deviation `measured`; the two degenerate windows are
\* exact: no non-zero return gives 0/0, equal returns give deviation 0
calculateVolatility(pd, measured) ==
    IF Len(pd) < 20 THEN Num(1, 100)
    ELSE IF NonZeroReturns(pd) = {} THEN NaN
    ELSE IF Cardinality(NonZeroReturns(pd)) = 1 THEN Int2Num(0)
    ELSE measured

LogVolatilities == {Num(5, 100), Num(12, 100), Int2Num(2)}

\* calculateCorrelation: 0.3 + Math.random() * 0.4
Correlations == {Num(30, 100), Num(50, 100), Num(69, 100)}

\* 1 - correlation * 0.3
OneMinus30Percent(correlation) ==
    Num(correlation.d * 10 - correlation.n * 3, correlation.d * 10)

calculateDynamicPositionSize(accountBalance, riskPerTrade, stopLossDistance, volatility, correlation) ==
    LET baseRiskAmount == Num(accountBalance * riskPerTrade, 100)
        volatilityAdjustment ==
            FMax(Num(1, 2), FMin(Num(3, 2), FDiv(Int2Num(1), volatility)))
        correlationAdjustment == FMax(Num(7, 10), OneMinus30Percent(correlation))
        adjustedRiskAmount ==
            FMul(FMul(baseRiskAmount, volatilityAdjustment), correlationAdjustment)
        recommendedSize == FDiv(adjustedRiskAmount, stopLossDistance)
        maxSize == FDiv(Num(accountBalance * 5, 100), stopLossDistance)
    IN  [recommendedSize |-> FMin(recommendedSize, maxSize),
         maxSize |-> maxSize,
         riskAmount |-> adjustedRiskAmount,
         stopLoss |-> stopLossDistance]

calculateRiskScore(volatility, correlation, atr) ==
    LET byVolatility == IF FGt(volatility, Num(15, 100)) THEN 20
                        ELSE IF FGt(volatility, Num(10, 100)) THEN 10
                        ELSE -5
        byCorrelation == IF FGt(correlation, Num(7, 10)) THEN 15
                         ELSE IF FGt(correlation, Num(5, 10)) THEN 5
                         ELSE 0
        byATR == IF FGt(atr, Num(30, 10000)) THEN 10
                 ELSE IF FLt(atr, Num(14, 10000)) THEN -5
                 ELSE 0
    IN  50 + byVolatility + byCorrelation + byATR

analyzeSmartRisk(pd, accountBalance, riskPerTrade, correlation, measured) ==
    LET atr == calculateATR(pd)
        volatility == calculateVolatility(pd, measured)
        riskScore == calculateRiskScore(volatility, correlation, atr)
    IN  [riskLevel |-> IF riskScore < 30 THEN "LOW"
                       ELSE IF riskScore < 60 THEN "MEDIUM"
                       ELSE IF riskScore < 80 THEN "HIGH"
                       ELSE "EXTREME",
         riskScore |-> riskScore,
         positionSizing |->
             calculateDynamicPositionSize(accountBalance, riskPerTrade,
                                          FMul(atr, Int2Num(2)), volatility, correlation)]

calculatePositionSize(volatility, confidence) ==
    LET byVolatility == IF FGt(volatility, Int2Num(3)) THEN Num(1, 2)
                        ELSE IF FLt(volatility, Int2Num(1)) THEN Num(3, 2)
                        ELSE Int2Num(1)
        byConfidence == IF confidence > 80 THEN Num(12, 10)
                        ELSE IF confidence < 60 THEN Num(7, 10)
                        ELSE Int2Num(1)
        baseSize == FMul(FMul(Num(2, 100), byVolatility), byConfidence)
    IN  FMin(Num(5, 100), FMax(Num(5, 1000), baseSize))

\* volatility of the market conditions in percent, confidence of the signal
MarketVolatilities == {Int2Num(0), Num(1, 2), Int2Num(2), Int2Num(5), NaN}
SignalConfidences == {0, 55, 70, 95}

\* the caller hands a window of candles to analyzeSmartRisk
LoadCandles(w) ==
    /\ candles = <<>>
    /\ riskAnalysis = NoRisk
    /\ w # <<>>
    /\ candles' = w
    /\ UNCHANGED <<riskAnalysis, positionSize, aggVars, masterVars, techVars, sentimentVars, liveVars, monitorVars, trendVars>>

\* analyzeSmartRisk(priceData) with the default balance 10000 and 2% risk
AnalyzeSmartRisk(correlation, measured) ==
    /\ riskAnalysis = NoRisk
    /\ riskAnalysis' = analyzeSmartRisk(candles, 10000, 2, correlation, measured)
    /\ UNCHANGED <<candles, positionSize, aggVars, masterVars, techVars, sentimentVars, liveVars, monitorVars, trendVars>>

\* generateRealTimeAISignal sizes the position of its signal
SizePosition(volatility, confidence) ==
    /\ positionSize = NoSize
    /\ positionSize' = calculatePositionSize(volatility, confidence)
    /\ UNCHANGED <<candles, riskAnalysis, aggVars, masterVars, techVars, sentimentVars, liveVars, monitorVars, trendVars>>

InitRisk == InitCommon

NextRisk ==
    \/ \E w \in Windows : LoadCandles(w)
    \/ \E c \in Correlations, m \in LogVolatilities : AnalyzeSmartRisk(c, m)
    \/ \E v \in MarketVolatilities, c \in SignalConfidences : SizePosition(v, c)

SpecRisk == InitRisk /\ [][NextRisk]_vars

----------------------------------------------------------------------------
(* analyzeCryptoTechnicals *)

MaxCloses == 21

RsiPeriod == 14

\* Price windows: n bars that close at BasePrice except for the last two, which
\* close at BasePrice plus the two offsets of a tail; the volume is BaseVolume
\* except for the last bar.
BasePrice == 10
BaseVolume == 10
Tails == {<<0, 0>>, <<0, -1>>, <<0, 3>>, <<3, 2>>, <<-2, -1>>}
LastVolumes == {10, 20}
\* a last bar trading several times the volume of the bars before it
SurgeVolume == 40

KlineWindow(n, tail, lastVolume) ==
    [closes |-> [i \in 1..n |->
                    Int2Num(BasePrice + (IF i = n THEN tail[2]
                                         ELSE IF i = n - 1 THEN tail[1] ELSE 0))],
     volumes |-> [i \in 1..n |-> Int2Num(IF i = n THEN lastVolume ELSE BaseVolume)]]

\* Trending windows: n bars whose closes move by step from one bar to the next,
\* every close strictly above or strictly below the one before it.
TrendStart == 40
Steps == {-1, 1}

TrendWindow(n, step) ==
    [closes |-> [i \in 1..n |-> Int2Num(TrendStart + step * i)],
     volumes |-> [i \in 1..n |-> Int2Num(BaseVolume)]]

\* windows of 20 bars and more differ from the base price in the last close only
FlatKlineWindows ==
    {KlineWindow(n, t, v) : n \in 0..19, t \in Tails, v \in LastVolumes}
    \cup {KlineWindow(n, t, v) :
             n \in 20..MaxCloses, t \in {u \in Tails : u[1] = 0}, v \in LastVolumes}

\* the flat windows, the trending windows and the windows closing on a volume surge
KlineWindows ==
    FlatKlineWindows
    \cup {TrendWindow(n, step) : n \in RsiPeriod + 1..MaxCloses, step \in Steps}
    \cup {KlineWindow(n, <<0, 0>>, SurgeVolume) : n \in 1..MaxCloses}

\* data[data.length - 1]: undefined on an empty array, NaN in any arithmetic
LastOf(data) == IF Len(data) = 0 THEN NaN ELSE data[Len(data)]

\* data.slice(-period)
SliceLast(data, period) ==
    IF Len(data) <= period THEN data ELSE SubSeq(data, Len(data) - period + 1, Len(data))

RECURSIVE SumOf(_)
SumOf(data) == IF data = <<>> THEN Int2Num(0) ELSE FAdd(Head(data), SumOf(Tail(data)))

calculateSMA(data, period) ==
    IF Len(data) < period THEN LastOf(data)
    ELSE FDiv(SumOf(SliceLast(data, period)), Int2Num(Len(SliceLast(data, period))))

\* the loop of calculateEMA from index i (1-based) on
RECURSIVE EMALoop(_, _, _, _)
EMALoop(data, period, i, ema) ==
    IF i > Len(data) THEN ema
    ELSE EMALoop(data, period, i + 1,
                 FAdd(FMul(data[i], Num(2, period + 1)),
                      FMul(ema, Num(period - 1, period + 1))))

calculateEMA(data, period) ==
    IF Len(data) < period THEN LastOf(data)
    ELSE EMALoop(data, period, period + 1,
                 calculateSMA(SubSeq(data, 1, period), period))

\* gains and losses over the last period changes
RECURSIVE Gains(_, _)
Gains(data, i) ==
    IF i > Len(data) THEN Int2Num(0)
    ELSE LET change == FSub(data[i], data[i - 1])
         IN  FAdd(IF change.n > 0 THEN change ELSE Int2Num(0), Gains(data, i + 1))

RECURSIVE Losses(_, _)
Losses(data, i) ==
    IF i > Len(data) THEN Int2Num(0)
    ELSE LET change == FSub(data[i], data[i - 1])
         IN  FAdd(IF change.n > 0 THEN Int2Num(0) ELSE FAbs(change), Losses(data, i + 1))

calculateRSI(data) ==
    IF Len(data) < RsiPeriod + 1 THEN Int2Num(50)
    ELSE LET avgGain == FDiv(Gains(data, Len(data) - RsiPeriod + 1), Int2Num(RsiPeriod))
             avgLoss == FDiv(Losses(data, Len(data) - RsiPeriod + 1), Int2Num(RsiPeriod))
         IN  IF avgLoss = Int2Num(0) THEN Int2Num(100)
             ELSE FSub(Int2Num(100),
                       FDiv(Int2Num(100), FAdd(Int2Num(1), FDiv(avgGain, avgLoss))))

calculateMACD(data) ==
    LET macd == FSub(calculateEMA(data, 12), calculateEMA(data, 26))
        signal == calculateEMA(<<macd>>, 9)
    IN  [macd |-> macd, signal |-> signal, histogram |-> FSub(macd, signal)]

\* |(a - b) / b| * 1000 for b > 0
RelativeGap(a, b) == FMul(FDiv(FAbs(FSub(a, b)), b), Int2Num(1000))

Indicator(name, value, signal, strength) ==
    [name |-> name, value |-> value, signal |-> signal, strength |-> strength]

smaCrossover(currentPrice, sma20, sma50) ==
    Indicator("SMA Crossover", sma20,
              IF FGt(currentPrice, sma20) /\ FGt(sma20, sma50) THEN "BUY"
              ELSE IF FLt(currentPrice, sma20) /\ FLt(sma20, sma50) THEN "SELL"
              ELSE "NEUTRAL",
              RelativeGap(currentPrice, sma20))

emaTrend(ema12, ema26) ==
    Indicator("EMA Trend", ema12,
              IF FGt(ema12, ema26) THEN "BUY"
              ELSE IF FLt(ema12, ema26) THEN "SELL" ELSE "NEUTRAL",
              RelativeGap(ema12, ema26))

\* the RSI labelled with the trend instead of against it
rsiIndicator_trendFollowing(rsi) ==
    Indicator("RSI", rsi,
              IF FLt(rsi, Int2Num(25)) THEN "STRONG_SELL"
              ELSE IF FLt(rsi, Int2Num(35)) THEN "SELL"
              ELSE IF FGt(rsi, Int2Num(75)) THEN "STRONG_BUY"
              ELSE IF FGt(rsi, Int2Num(65)) THEN "BUY" ELSE "NEUTRAL",
              IF FLt(rsi, Int2Num(30)) \/ FGt(rsi, Int2Num(70)) THEN Int2Num(85)
              ELSE IF FLt(rsi, Int2Num(40)) \/ FGt(rsi, Int2Num(60)) THEN Int2Num(65)
              ELSE Int2Num(40))

rsiIndicator(rsi) ==
    Indicator("RSI", rsi,
              IF FLt(rsi, Int2Num(25)) THEN "STRONG_BUY"
              ELSE IF FLt(rsi, Int2Num(35)) THEN "BUY"
              ELSE IF FGt(rsi, Int2Num(75)) THEN "STRONG_SELL"
              ELSE IF FGt(rsi, Int2Num(65)) THEN "SELL" ELSE "NEUTRAL",
              IF FLt(rsi, Int2Num(30)) \/ FGt(rsi, Int2Num(70)) THEN Int2Num(85)
              ELSE IF FLt(rsi, Int2Num(40)) \/ FGt(rsi, Int2Num(60)) THEN Int2Num(65)
              ELSE Int2Num(40))

macdIndicator(macdData) ==
    Indicator("MACD", macdData.macd,
              IF FGt(macdData.macd, macdData.signal) THEN "BUY" ELSE "SELL",
              FMul(FAbs(macdData.histogram), Int2Num(1000)))

volumeIndicator(volumeRatio) ==
    Indicator("Volume", volumeRatio,
              IF FGt(volumeRatio, Num(3, 2)) THEN "BUY"
              ELSE IF FLt(volumeRatio, Num(7, 10)) THEN "SELL" ELSE "NEUTRAL",
              FMul(FAbs(FSub(volumeRatio, Int2Num(1))), Int2Num(100)))

indicatorsOf(k) ==
    LET closes == k.closes
        currentPrice == LastOf(closes)
        sma20 == calculateSMA(closes, 20)
        sma50 == calculateSMA(closes, 50)
        volumeRatio == FDiv(LastOf(k.volumes), calculateSMA(k.volumes, 20))
    IN  << smaCrossover(currentPrice, sma20, sma50),
           emaTrend(calculateEMA(closes, 12), calculateEMA(closes, 26)),
           rsiIndicator(calculateRSI(closes)),
           macdIndicator(calculateMACD(closes)),
           volumeIndicator(volumeRatio) >>

RECURSIVE SumScoreTimesStrength(_)
SumScoreTimesStrength(inds) ==
    IF inds = <<>> THEN Int2Num(0)
    ELSE FAdd(FMul(Int2Num(signalScore(Head(inds).signal)), Head(inds).strength),
              SumScoreTimesStrength(Tail(inds)))

RECURSIVE SumStrength(_)
SumStrength(inds) ==
    IF inds = <<>> THEN Int2Num(0)
    ELSE FAdd(Head(inds).strength, SumStrength(Tail(inds)))

analyzeCryptoTechnicals(k) ==
    LET indicators == indicatorsOf(k)
        technicalScore == FDiv(SumScoreTimesStrength(indicators), SumStrength(indicators))
    IN  [indicators |-> indicators,
         overallSignal |-> IF FGeq(technicalScore, Int2Num(85)) THEN "STRONG_BUY"
                           ELSE IF FGeq(technicalScore, Int2Num(65)) THEN "BUY"
                           ELSE IF FLeq(technicalScore, Int2Num(15)) THEN "STRONG_SELL"
                           ELSE IF FLeq(technicalScore, Int2Num(35)) THEN "SELL"
                           ELSE "NEUTRAL",
         confidence |-> FMin(Int2Num(95),
                             FMax(Int2Num(50),
                                  FDiv(SumStrength(indicators), Int2Num(Len(indicators)))))]

\* the component receives the fetched klines
LoadKlines(k) ==
    /\ klines = [closes |-> <<>>, volumes |-> <<>>]
    /\ technicals = NoTechnicals
    /\ klines' = k
    /\ UNCHANGED <<technicals, aggVars, masterVars, riskVars, sentimentVars, liveVars, monitorVars, trendVars>>

AnalyzeCryptoTechnicals ==
    /\ technicals = NoTechnicals
    /\ technicals' = analyzeCryptoTechnicals(klines)
    /\ UNCHANGED <<klines, aggVars, masterVars, riskVars, sentimentVars, liveVars, monitorVars, trendVars>>

InitTech == InitCommon

NextTech ==
    \/ \E k \in KlineWindows : LoadKlines(k)
    \/ AnalyzeCryptoTechnicals

SpecTech == InitTech /\ [][NextTech]_vars

\* C14: after analyzeCryptoTechnicals ran on a window shorter than the minimum
\* period of an indicator (15 closes for the RSI, 20 for the SMA crossover),
\* the result holds no indicator of that name: the computation failed and the
\* indicator has no value, NEUTRAL or other, in the technical vote.
HasIndicator(name) ==
    \E i \in 1..Len(technicals.indicators) : technicals.indicators[i].name = name

C14_ShortWindowOmitsIndicator ==
    technicals # NoTechnicals =>
        /\ Len(klines.closes) < RsiPeriod + 1 => ~HasIndicator("RSI")
        /\ Len(klines.closes) < 20 => ~HasIndicator("SMA Crossover")

\* the RSI indicator of the analysis
RsiOf(t) == t.indicators[CHOOSE i \in 1..Len(t.indicators) : t.indicators[i].name = "RSI"]

\* the last RsiPeriod changes of the closes all fall / all rise
StrictlyDecreasing(closes) ==
    /\ Len(closes) >= RsiPeriod + 1
    /\ \A i \in Len(closes) - RsiPeriod + 1..Len(closes) : FLt(closes[i], closes[i - 1])

StrictlyIncreasing(closes) ==
    /\ Len(closes) >= RsiPeriod + 1
    /\ \A i \in Len(closes) - RsiPeriod + 1..Len(closes) : FGt(closes[i], closes[i - 1])

\* C21 (as stated): on closes strictly decreasing over the last 14 changes the
\* RSI indicator has value 0 and a label of the sell band; on strictly
\* increasing closes it has value 100 and a label of the buy band.
C21_MonotoneSeriesLabelledWithTrend ==
    technicals # NoTechnicals =>
        /\ StrictlyDecreasing(klines.closes) =>
               /\ RsiOf(technicals).value = Int2Num(0)
               /\ RsiOf(technicals).signal \in {"STRONG_SELL", "SELL"}
        /\ StrictlyIncreasing(klines.closes) =>
               /\ RsiOf(technicals).value = Int2Num(100)
               /\ RsiOf(technicals).signal \in {"STRONG_BUY", "BUY"}

\* C21 (amended): on closes strictly decreasing over the last 14 changes the RSI
\* indicator has value 0 and the label STRONG_BUY (oversold); on strictly
\* increasing closes it has value 100 and the label STRONG_SELL (overbought);
\* the strength is 85 in both cases.
C21_MonotoneSeriesLabelledAgainstTrend ==
    technicals # NoTechnicals =>
        /\ StrictlyDecreasing(klines.closes) =>
               RsiOf(technicals) = Indicator("RSI", Int2Num(0), "STRONG_BUY", Int2Num(85))
        /\ StrictlyIncreasing(klines.closes) =>
               RsiOf(technicals) = Indicator("RSI", Int2Num(100), "STRONG_SELL", Int2Num(85))

C21_Witness ==
    /\ technicals # NoTechnicals
    /\ StrictlyDecreasing(klines.closes)
    /\ Len(klines.closes) > RsiPeriod + 1
    /\ RsiOf(technicals).signal = "STRONG_BUY"

\* C22: every indicator of an analysis computed on a window of 20 bars or more
\* (long enough for the 20-bar averages) has a strength within [0, 100].
C22_StrengthWithinRange ==
    (technicals # NoTechnicals /\ Len(klines.closes) >= 20) =>
        \A i \in 1..Len(technicals.indicators) :
            /\ FGeq(technicals.indicators[i].strength, Int2Num(0))
            /\ FLeq(technicals.indicators[i].strength, Int2Num(100))

----------------------------------------------------------------------------
(* analyzeAdvancedSentiment *)

\* closes.slice(-20, -10)
OlderSlice(closes) ==
    LET n == Len(closes)
    IN  IF n <= 10 THEN <<>> ELSE SubSeq(closes, Max2(n - 20, 0) + 1, n - 10)

\* reduce((a, b) => a + b) without an initial value throws a TypeError on an
\* empty array
ReduceThrows(data) == Len(data) = 0

Average(data) == FDiv(SumOf(data), Int2Num(Len(data)))

\* sum over i >= from of ((closes[i] - closes[i-1]) / closes[i-1])^2
RECURSIVE SumSquaredReturns(_, _)
SumSquaredReturns(closes, from) ==
    IF from > Len(closes) THEN Int2Num(0)
    ELSE LET ret == FDiv(FSub(closes[from], closes[from - 1]), closes[from - 1])
         IN  FAdd(FMul(ret, ret), SumSquaredReturns(closes, from + 1))

analyzePriceActionThrows(closes) ==
    Len(closes) >= 10 /\ ReduceThrows(OlderSlice(closes))

\* volatility is a square root: the record holds its square
analyzePriceAction(closes) ==
    IF Len(closes) < 10
    THEN [trend |-> "INSUFFICIENT_DATA", momentum |-> "NEUTRAL",
          volatilitySquared |-> Int2Num(0)]
    ELSE LET recentAvg == Average(SliceLast(closes, 10))
             olderAvg == Average(OlderSlice(closes))
             currentPrice == closes[Len(closes)]
             previousPrice == closes[Len(closes) - 4]
             momentum == FDiv(FSub(currentPrice, previousPrice), previousPrice)
         IN  [trend |-> IF FGt(recentAvg, olderAvg) THEN "BULLISH"
                        ELSE IF FLt(recentAvg, olderAvg) THEN "BEARISH" ELSE "NEUTRAL",
              momentum |-> IF FGt(momentum, Num(2, 100)) THEN "STRONG_BULLISH"
                           ELSE IF FGt(momentum, Num(5, 1000)) THEN "BULLISH"
                           ELSE IF FLt(momentum, Num(-2, 100)) THEN "STRONG_BEARISH"
                           ELSE IF FLt(momentum, Num(-5, 1000)) THEN "BEARISH"
                           ELSE "NEUTRAL",
              volatilitySquared |-> FDiv(SumSquaredReturns(closes, 2),
                                         Int2Num(Len(closes) - 1))]

SentimentData(source, label, confidence, impact) ==
    [source |-> source, sentiment |-> label, confidence |-> confidence, impact |-> impact]

\* the source built from the text of the AI answer
aiSource(answer) ==
    IF answer = "BULLISH" THEN SentimentData("Gemini AI Analysis", "BULLISH", 75, "HIGH")
    ELSE IF answer = "BEARISH" THEN SentimentData("Gemini AI Analysis", "BEARISH", 75, "HIGH")
    ELSE SentimentData("Gemini AI Analysis", "NEUTRAL", 60, "HIGH")

\* the catch block of generateAIPriceSentiment
priceActionSource(priceAnalysis) ==
    IF priceAnalysis.trend = "BULLISH"
       /\ priceAnalysis.momentum \in {"BULLISH", "STRONG_BULLISH"}
    THEN SentimentData("Price Action Analysis", "BULLISH", 70, "MEDIUM")
    ELSE IF priceAnalysis.trend = "BEARISH"
            /\ priceAnalysis.momentum \in {"BEARISH", "STRONG_BEARISH"}
    THEN SentimentData("Price Action Analysis", "BEARISH", 70, "MEDIUM")
    ELSE SentimentData("Price Action Analysis", "NEUTRAL", 50, "MEDIUM")

technicalSource(priceAnalysis) ==
    SentimentData("Technical Analysis", priceAnalysis.trend,
                  IF FLt(priceAnalysis.volatilitySquared, Num(4, 10000)) THEN 80 ELSE 60,
                  "HIGH")

\* weight * confidenceWeight, in thousandths
finalWeight(source) ==
    (IF source.impact = "HIGH" THEN 10 ELSE 7) * source.confidence

\* the sum of finalWeight over the sources with the given label ("ALL": every
\* source), in thousandths
RECURSIVE SumWeights(_, _)
SumWeights(sources, label) ==
    IF sources = <<>> THEN 0
    ELSE (IF label \in {"ALL", Head(sources).sentiment}
          THEN finalWeight(Head(sources)) ELSE 0)
         + SumWeights(Tail(sources), label)

\* Math.round((w / count) * 100) for a total weight w in thousandths
RoundedPercent(w, count) == (2 * w + 10 * count) \div (20 * count)

\* analyzeAdvancedSentiment from the sources on; bullishPercentage > 65 is
\* bullishScore * 100 > 65 * totalScore for totalScore > 0
combineSentiment(aiSentiment, priceAnalysis) ==
    LET sources == <<aiSentiment, technicalSource(priceAnalysis)>>
        bullishScore == SumWeights(sources, "BULLISH")
        bearishScore == SumWeights(sources, "BEARISH")
        totalScore == bullishScore + bearishScore
    IN  [overallSentiment |->
             IF totalScore > 0 /\ bullishScore * 100 > 65 * totalScore THEN "BULLISH"
             ELSE IF totalScore > 0 /\ bullishScore * 100 < 35 * totalScore THEN "BEARISH"
             ELSE "NEUTRAL",
         confidence |->
             IF totalScore > 0
             THEN RoundedPercent(SumWeights(sources, "ALL"), Len(sources))
             ELSE 50,
         sources |-> sources,
         priceAnalysis |-> priceAnalysis]

AiResponses == {"BULLISH", "BEARISH", "OTHER", "HTTP_ERROR", "NETWORK_ERROR"}

SentimentArgs ==
    {[closes |-> k.closes, volumes |-> k.volumes, apiKeyUsable |-> u] :
        k \in FlatKlineWindows, u \in BOOLEAN}

Resolve(aiSentiment, priceAnalysis) ==
    /\ sentimentAnalysis' = combineSentiment(aiSentiment, priceAnalysis)
    /\ sentimentPc' = "resolved"

\* analyzeAdvancedSentiment(priceData, apiKey) up to its first suspension:
\* analyzePriceAction runs outside any try; inside the try of
\* generateAIPriceSentiment an unusable key and the volume average of an empty
\* window throw into the catch block; otherwise the fetch is sent
CallSentiment(args) ==
    /\ sentimentPc = "idle"
    /\ sentimentArgs' = args
    /\ IF analyzePriceActionThrows(args.closes)
       THEN /\ sentimentPc' = "rejected"
            /\ UNCHANGED <<sentimentAnalysis, sentimentLocals>>
       ELSE /\ sentimentLocals' = [priceAnalysis |-> analyzePriceAction(args.closes)]
            /\ IF ~args.apiKeyUsable \/ ReduceThrows(SliceLast(args.volumes, 10))
               THEN Resolve(priceActionSource(sentimentLocals'.priceAnalysis),
                            sentimentLocals'.priceAnalysis)
               ELSE sentimentPc' = "awaitingAI" /\ UNCHANGED sentimentAnalysis
    /\ UNCHANGED <<aiResponse, aggVars, masterVars, riskVars, techVars, liveVars, monitorVars, trendVars>>

\* the AI provider settles the fetch
ProviderResponds(r) ==
    /\ sentimentPc = "awaitingAI"
    /\ aiResponse = "none"
    /\ aiResponse' = r
    /\ UNCHANGED <<sentimentPc, sentimentArgs, sentimentLocals, sentimentAnalysis,
                   aggVars, masterVars, riskVars, techVars, liveVars, monitorVars, trendVars>>

\* the continuation after await fetch
ContinueSentiment ==
    /\ sentimentPc = "awaitingAI"
    /\ aiResponse # "none"
    /\ IF aiResponse \in {"HTTP_ERROR", "NETWORK_ERROR"}
       THEN Resolve(priceActionSource(sentimentLocals.priceAnalysis),
                    sentimentLocals.priceAnalysis)
       ELSE Resolve(aiSource(aiResponse), sentimentLocals.priceAnalysis)
    /\ UNCHANGED <<sentimentArgs, sentimentLocals, aiResponse,
                   aggVars, masterVars, riskVars, techVars, liveVars, monitorVars, trendVars>>

InitSentiment == InitCommon

NextSentiment ==
    \/ \E a \in SentimentArgs : CallSentiment(a)
    \/ \E r \in AiResponses : ProviderResponds(r)
    \/ ContinueSentiment

SpecSentiment == InitSentiment /\ [][NextSentiment]_vars

\* the event loop runs every continuation that is ready; nothing makes the
\* provider answer
SpecSentimentFair == SpecSentiment /\ WF_vars(ContinueSentiment)

SentimentResolved == sentimentPc = "resolved"

\* C15: analyzeAdvancedSentiment never rejects, whatever the length of the
\* price window and the state of the AI opinion, and what it resolves with
\* carries a sentiment label and a confidence within 0..100.
C15_SentimentNeverThrows ==
    /\ sentimentPc # "rejected"
    /\ SentimentResolved =>
           /\ sentimentAnalysis.overallSentiment \in SentimentLabels
           /\ sentimentAnalysis.confidence \in 0..100

\* C16: when the price window is unusable (fewer than 10 bars) and there is
\* no AI opinion (no usable key), analyzeAdvancedSentiment resolves with
\* NEUTRAL at confidence 0.
C16_NoDataIsNeutralZero ==
    ( /\ SentimentResolved
      /\ Len(sentimentArgs.closes) < 10
      /\ ~sentimentArgs.apiKeyUsable ) =>
        /\ sentimentAnalysis.overallSentiment = "NEUTRAL"
        /\ sentimentAnalysis.confidence = 0

\* C19: a run of analyzeAdvancedSentiment that has sent its request to the AI
\* provider eventually completes, whether or not the provider ever answers.
C19_RunEventuallyCompletes ==
    (sentimentPc = "awaitingAI") ~> (sentimentPc \in {"resolved", "rejected"})

----------------------------------------------------------------------------
(* Claims about the aggregator, checked under SpecAgg *)

Aggregated == aggregate # NoAggregate

IsNonVote(s) == s.weight = 0 \/ s.confidence = 0

AllNonVotes(sigs) == \A i \in 1..Len(sigs) : IsNonVote(sigs[i])

\* C2: when every source of the aggregated list has confidence 0 or weight 0,
\* the final score is the number 50 (no division by zero has produced NaN or
\* Infinity) and the overall label is NEUTRAL.
C2_AllZeroIsNeutral ==
    (Aggregated /\ AllNonVotes(signals)) =>
        /\ aggregate.finalScore = Int2Num(50)
        /\ aggregate.overallSignal = "NEUTRAL"

\* reached: two sources with directional labels, one with weight > 0 and
\* confidence 0, one with weight 0, have been aggregated
C2_Witness ==
    /\ Aggregated
    /\ Len(signals) = 2
    /\ signals[1] = [signal |-> "STRONG_BUY", weight |-> 100, confidence |-> 0]
    /\ signals[2] = [signal |-> "BUY", weight |-> 0, confidence |-> 90]
    /\ aggregate.overallSignal = "NEUTRAL"

\* C9: appending a source with weight 0 or confidence 0 to the aggregated list
\* gives the same overall label, and that label is one of the five labels.
C9_NonVoteKeepsLabel ==
    Aggregated =>
        \A z \in Sources :
            IsNonVote(z) =>
                /\ calculateMasterSignal(Append(signals, z)) = aggregate.overallSignal
                /\ calculateMasterSignal(Append(signals, z)) \in SignalLabels

\* reached: a list whose last source is a non-vote with an opposing label has
\* been aggregated to a directional label, the label of the list without it
C9_Witness ==
    /\ Aggregated
    /\ Len(signals) = 2
    /\ signals[2] = [signal |-> "STRONG_SELL", weight |-> 100, confidence |-> 0]
    /\ aggregate.overallSignal = "STRONG_BUY"
    /\ calculateMasterSignal(SubSeq(signals, 1, 1)) = "STRONG_BUY"

\* C10: appending a source with confidence 0 to the aggregated list leaves the
\* value of calculateMasterConfidence unchanged.
C10_ZeroConfidenceKeepsConfidence ==
    Aggregated =>
        \A z \in Sources :
            z.confidence = 0 =>
                calculateMasterConfidence(Append(signals, z)) = aggregate.masterConfidence

\* source k carries all the weight: weight 1 with confidence > 0, every other
\* source weight 0
IsDominant(sigs, k) ==
    /\ sigs[k].weight = 100
    /\ sigs[k].confidence > 0
    /\ \A i \in 1..Len(sigs) : i # k => sigs[i].weight = 0

\* C11 as stated: when one source of the aggregated list carries all the
\* weight, the overall label is that source's label, whichever of the labels
\* of a source (signal or sentiment domain) it carries.
C11_DominantSourceReproduced ==
    Aggregated =>
        \A k \in 1..Len(signals) :
            IsDominant(signals, k) => aggregate.overallSignal = signals[k].signal

\* C11 amended: when one source of the aggregated list carries all the weight
\* and its label is one of the five signal labels, the overall label is that
\* source's label.
C11_DominantSignalLabelReproduced ==
    Aggregated =>
        \A k \in 1..Len(signals) :
            (IsDominant(signals, k) /\ signals[k].signal \in SignalLabels) =>
                aggregate.overallSignal = signals[k].signal

\* reached: a dominant STRONG_SELL source next to a weightless STRONG_BUY source
\* of higher confidence has been aggregated to STRONG_SELL
C11_Witness ==
    /\ Aggregated
    /\ Len(signals) = 2
    /\ signals[1] = [signal |-> "STRONG_SELL", weight |-> 100, confidence |-> 50]
    /\ signals[2] = [signal |-> "STRONG_BUY", weight |-> 0, confidence |-> 90]
    /\ aggregate.overallSignal = "STRONG_SELL"

\* the aggregated list with the confidence of source i raised to c
WithConfidence(sigs, i, c) == [sigs EXCEPT ![i].confidence = c]

RaisedConfidences(s) == {c \in {25, 50, 90, 100} : c > s.confidence}

\* C12 as stated: raising the confidence of one source of the aggregated list,
\* the others held fixed, never lowers the final score when the source is
\* bullish and never raises it when the source is bearish.
C12_MoreConfidenceNeverAgainstDirection ==
    Aggregated =>
        \A i \in 1..Len(signals) : \A c \in RaisedConfidences(signals[i]) :
            LET raised == finalScore(WithConfidence(signals, i, c))
            IN  /\ IsBullish(signals[i].signal) => FGeq(raised, aggregate.finalScore)
                /\ IsBearish(signals[i].signal) => FLeq(raised, aggregate.finalScore)

\* x lies between a and b (in either order), ends included
IsBetween(x, a, b) ==
    \/ FLeq(a, x) /\ FLeq(x, b)
    \/ FLeq(b, x) /\ FLeq(x, a)

\* C12 amended: raising the confidence of one source of the aggregated list,
\* the others held fixed, moves the final score towards that source's own
\* label score and never past it: the new score lies between the old score
\* and the label score of the source.
C12_MoreConfidencePullsTowardsSource ==
    Aggregated =>
        \A i \in 1..Len(signals) : \A c \in RaisedConfidences(signals[i]) :
            IsBetween(finalScore(WithConfidence(signals, i, c)),
                      aggregate.finalScore,
                      Int2Num(signalScore(signals[i].signal)))

\* reached: a BUY source at confidence 50 next to a STRONG_BUY source at
\* confidence 90 has been aggregated; raising the BUY source to confidence 90
\* lowers the score from 1275/14 to 175/2, towards 75
C12_Witness ==
    /\ Aggregated
    /\ Len(signals) = 2
    /\ signals[1] = [signal |-> "STRONG_BUY", weight |-> 100, confidence |-> 90]
    /\ signals[2] = [signal |-> "BUY", weight |-> 100, confidence |-> 50]
    /\ aggregate.finalScore = Num(1275, 14)
    /\ finalScore(WithConfidence(signals, 2, 90)) = Num(175, 2)

\* the aggregated list with the label of source i replaced
WithLabel(sigs, i, label) == [sigs EXCEPT ![i].signal = label]

\* source i of the list could be given label b instead of label a without
\* a change of the final score
ScoresAlike(a, b) ==
    \A i \in 1..Len(signals) :
        signals[i].signal = a =>
            finalScore(WithLabel(signals, i, b)) = aggregate.finalScore

\* C13 as stated: in the aggregated list a BULLISH source counts as a
\* STRONG_BUY source (score 100) and a BEARISH source as a SELL source
\* (score 25).
C13_BullishScoresAsStrongBuy ==
    Aggregated => (ScoresAlike("BULLISH", "STRONG_BUY") /\ ScoresAlike("BEARISH", "SELL"))

\* C13 amended: in the aggregated list a BULLISH source counts as a BUY source
\* (score 75) and a BEARISH source as a SELL source (score 25).
C13_BullishScoresAsBuy ==
    Aggregated => (ScoresAlike("BULLISH", "BUY") /\ ScoresAlike("BEARISH", "SELL"))

\* reached: a BULLISH source at confidence 90 and a NEUTRAL source at
\* confidence 50 have been aggregated to the score (75*90 + 50*50)/140
C13_Witness ==
    /\ Aggregated
    /\ Len(signals) = 2
    /\ signals[1] = [signal |-> "BULLISH", weight |-> 100, confidence |-> 90]
    /\ signals[2] = [signal |-> "NEUTRAL", weight |-> 100, confidence |-> 50]
    /\ aggregate.finalScore = Num(925, 14)

----------------------------------------------------------------------------
(* Claims about generateMasterAnalysis and the trade decision, under Spec *)

Returned == pc = "done"
ReturnedNormal == pc = "done" /\ analysis.path = "normal"

\* the inputs determineShouldTrade was called with
CalendarBlackout == FGt(components.calendar.impactScore, Int2Num(20))
RawRiskLevel == analyzeRealRisk(priceData).riskLevel

\* C1: a returned MasterAnalysis whose riskLevel is EXTREME has
\* shouldTrade = false.
C1_ExtremeVetoesTrade ==
    Returned => (analysis.riskLevel = "EXTREME" => analysis.shouldTrade = FALSE)

\* C3: in a calendar blackout (impactScore > 20) with an overall label that is
\* not a STRONG variant, shouldTrade is false whatever the confidence, the risk
\* level and the number of candles.
C3_BlackoutVetoesNonStrong ==
    (ReturnedNormal /\ CalendarBlackout /\ ~IsStrong(analysis.overallSignal)) =>
        analysis.shouldTrade = FALSE

\* reached: blackout, label BUY with confidence above 70 on LOW risk and 50 or
\* more candles, and the trade was refused
C3_Witness ==
    /\ ReturnedNormal
    /\ CalendarBlackout
    /\ analysis.overallSignal = "BUY"
    /\ FGt(analysis.masterConfidence, Int2Num(70))
    /\ RawRiskLevel = "LOW"
    /\ priceData.len >= 50
    /\ analysis.shouldTrade = FALSE

\* the five gating rules of the specification
FiveRulesPass ==
    /\ analysis.overallSignal # "NEUTRAL"
    /\ FGeq(analysis.masterConfidence, Int2Num(60))
    /\ FGeq(analysis.accuracyScore, Int2Num(65))
    /\ RawRiskLevel # "EXTREME" /\ analysis.riskLevel # "EXTREME"
    /\ ~CalendarBlackout

\* C4 as stated: whenever the five gating rules pass, shouldTrade is true.
C4_FiveRulesSuffice ==
    (ReturnedNormal /\ FiveRulesPass) => analysis.shouldTrade = TRUE

\* the allow rules that end determineShouldTrade, and its candle count rule
AllowRulePasses ==
    \/ IsStrong(analysis.overallSignal) /\ FGt(analysis.masterConfidence, Int2Num(75))
    \/ FGt(analysis.masterConfidence, Int2Num(70)) /\ RawRiskLevel = "LOW"

\* C4 amended: whenever the five gating rules pass, there are at least 50
\* candles and the label is a STRONG variant with confidence above 75 or the
\* confidence is above 70 on LOW risk, shouldTrade is true.
C4_RulesAndAllowRuleSuffice ==
    (ReturnedNormal /\ FiveRulesPass /\ priceData.len >= 50 /\ AllowRulePasses) =>
        analysis.shouldTrade = TRUE

\* reached: a BUY (not STRONG) label traded on LOW risk with all rules passing
C4_Witness ==
    /\ ReturnedNormal
    /\ FiveRulesPass
    /\ priceData.len >= 50
    /\ analysis.overallSignal = "BUY"
    /\ RawRiskLevel = "LOW"
    /\ analysis.shouldTrade = TRUE

\* C5: a returned MasterAnalysis with shouldTrade = true has an accuracyScore
\* of at least 65.
C5_TradeImpliesAccuracyFloor ==
    (Returned /\ analysis.shouldTrade = TRUE) =>
        FGeq(analysis.accuracyScore, Int2Num(65))

\* reached: a trade on fewer than 100 candles, with the calendar penalty and
\* only two of five sources agreeing, at accuracy 66
C5_Witness ==
    /\ ReturnedNormal
    /\ analysis.shouldTrade = TRUE
    /\ priceData.len < 100
    /\ FGt(components.calendar.impactScore, Int2Num(15))
    /\ analysis.accuracyScore = Int2Num(66)

\* C6 as stated: in a calendar blackout a STRONG label with confidence above
\* the override floor (taken at the 95 cap) trades when rules 1-4 pass and
\* there are enough candles.
C6_StrongOverridesBlackout ==
    ( /\ ReturnedNormal
      /\ CalendarBlackout
      /\ IsStrong(analysis.overallSignal)
      /\ analysis.masterConfidence = Int2Num(95)
      /\ FGeq(analysis.accuracyScore, Int2Num(65))
      /\ RawRiskLevel # "EXTREME" /\ analysis.riskLevel # "EXTREME"
      /\ priceData.len >= 50 ) =>
        analysis.shouldTrade = TRUE

\* C6 amended: in a calendar blackout shouldTrade is false for a STRONG label
\* too, whatever its confidence: there is no override.
C6_BlackoutVetoesStrong ==
    (ReturnedNormal /\ CalendarBlackout /\ IsStrong(analysis.overallSignal)) =>
        analysis.shouldTrade = FALSE

\* reached: blackout, STRONG_BUY at confidence 95 on LOW risk with 100
\* candles, and the trade was refused
C6_Witness ==
    /\ ReturnedNormal
    /\ CalendarBlackout
    /\ analysis.overallSignal = "STRONG_BUY"
    /\ analysis.masterConfidence = Int2Num(95)
    /\ RawRiskLevel = "LOW"
    /\ priceData.len = 100
    /\ analysis.shouldTrade = FALSE

AccuracyInRange ==
    /\ FGeq(analysis.accuracyScore, Int2Num(45))
    /\ FLeq(analysis.accuracyScore, Int2Num(95))

\* C8 as stated: every returned MasterAnalysis, normal or fallback, has
\* accuracyScore within [45, 95].
C8_AccuracyAlwaysInRange == Returned => AccuracyInRange

\* C8 amended: a MasterAnalysis returned on the normal path has accuracyScore
\* within [45, 95]; one returned on the fallback path has accuracyScore 0.
C8_AccuracyInRangeOrZero ==
    Returned =>
        /\ analysis.path = "normal" => AccuracyInRange
        /\ analysis.path = "fallback" => analysis.accuracyScore = Int2Num(0)

\* reached: the fallback taken after all components resolved, because the
\* derivation threw on a window of fewer than 24 candles
C8_Witness ==
    /\ Returned
    /\ analysis.path = "fallback"
    /\ pc = "done" /\ priceData.len = 12
    /\ "comprehensive" \in DOMAIN components
    /\ analysis.accuracyScore = Int2Num(0)

\* how the run came to its catch block
FetchFailed == Returned /\ priceData.len = 0
SourceRejected == Returned /\ "failed" \in DOMAIN components
DerivationFailed ==
    Returned /\ "comprehensive" \in DOMAIN components /\ educationalAnalysisThrows(priceData)

\* C17: when one of the fanned-out sources rejected, the returned
\* MasterAnalysis is still the aggregate of the other sources (the normal
\* path), not the fallback that drops every component result.
C17_SourceFailureStillAggregates ==
    SourceRejected => analysis.path = "normal"

\* C18: whichever step failed (the price fetch, a fanned-out source, the
\* derivation over too few bars), generateMasterAnalysis has returned a
\* MasterAnalysis with overallSignal NEUTRAL and shouldTrade false.
C18_FailureReturnsNeutralNoTrade ==
    (FetchFailed \/ SourceRejected \/ DerivationFailed) =>
        /\ analysis.overallSignal = "NEUTRAL"
        /\ analysis.shouldTrade = FALSE

\* reached: all five sources resolved with STRONG_BUY-leaning results on 12
\* candles, the derivation threw, and NEUTRAL without trade was returned
C18_Witness ==
    /\ DerivationFailed
    /\ priceData.len = 12
    /\ components.comprehensive.overallSignal = "STRONG_BUY"
    /\ analysis.overallSignal = "NEUTRAL"
    /\ analysis.shouldTrade = FALSE

NextTier(level) ==
    CASE level = "LOW" -> "MEDIUM"
      [] level = "MEDIUM" -> "HIGH"
      [] level = "HIGH" -> "EXTREME"
      [] OTHER -> level

\* C20: for the fetched candles, analyzeRealRisk gives the tier of the
\* volatility band when the volume ratio is within [0.3, 3.0], and the next
\* tier up (LOW to MEDIUM, MEDIUM to HIGH, HIGH to EXTREME) when it is not.
C20_VolumeAnomalyEscalatesOneTier ==
    pc \in {"fetched", "joined", "done"} /\ priceData.len > 0 =>
        RawRiskLevel = IF isUnusualVolume(priceData)
                       THEN NextTier(volatilityBand(priceData).riskLevel)
                       ELSE volatilityBand(priceData).riskLevel

----------------------------------------------------------------------------
(* Claims about the risk gate, checked under SpecRisk *)

\* the capital put at risk: position size times stop distance
CapitalAtRisk ==
    FMul(riskAnalysis.positionSizing.recommendedSize, riskAnalysis.positionSizing.stopLoss)

\* C7: positionSize from calculatePositionSize is within [0.005, 0.05], and
\* for every RiskAnalysis returned by analyzeSmartRisk recommendedSize x
\* stopLoss is a finite number of at most 5% of the account balance (10000
\* by default), also when the ATR is 0.
C7_RiskNeverExceedsCeiling ==
    /\ positionSize # NoSize =>
           /\ FGeq(positionSize, Num(5, 1000))
           /\ FLeq(positionSize, Num(5, 100))
    /\ riskAnalysis # NoRisk =>
           /\ IsFinite(CapitalAtRisk)
           /\ FLeq(CapitalAtRisk, Num(10000 * 5, 100))

----------------------------------------------------------------------------
(* CryptoAnalysisComponent and BinanceWebSocketClient *)

\* Bars are represented by their timestamp (the close time of the kline, in
\* milliseconds); the prices they carry, and the component state derived from
\* prices (livePrice, currentStats, analysis), are not represented.

MaxSockets == 6
MaxMinute == 240
FetchLimit == 3

maxReconnectAttempts == 5

\* close time of the one-minute kline of minute m and of the one-hour kline of
\* hour h: the last millisecond of the interval
MinuteCloseTime(m) == 60000 * (m + 1) - 1
HourCloseTime(h) == 3600000 * (h + 1) - 1

RECURSIVE Pow2(_)
Pow2(k) == IF k = 0 THEN 1 ELSE 2 * Pow2(k - 1)

\* fetchBinanceKlines(symbol, '1h', limit) answered at minute m: the last limit
\* hourly klines, oldest first, each mapped to its close time; the exchange
\* either includes the kline of the hour still open or ends with the last
\* closed one
fetchBinanceKlines(m, limit, includesOpen) ==
    LET lastHour == IF includesOpen THEN m \div 60 ELSE (m \div 60) - 1
    IN  [i \in 1..limit |-> HourCloseTime(lastHour - limit + i)]

\* handleReconnect() without the limit on the attempts
handleReconnect_unlimited(client, tms) ==
    [client |-> [client EXCEPT !.reconnectAttempts = @ + 1],
     timers |-> Append(tms, Pow2(client.reconnectAttempts + 1) * 1000)]

\* handleReconnect(): the client and the timers after it ran
handleReconnect(client, tms) ==
    IF client.reconnectAttempts < maxReconnectAttempts
    THEN [client |-> [client EXCEPT !.reconnectAttempts = @ + 1],
          timers |-> Append(tms, Pow2(client.reconnectAttempts + 1) * 1000)]
    ELSE [client |-> client, timers |-> tms]

\* connect(): new WebSocket(wsUrl) either returns a socket in state CONNECTING,
\* which becomes this.ws, or throws into the catch block
connect(client, socks, tms, throws) ==
    IF throws
    THEN [client |-> handleReconnect(client, tms).client,
          sockets |-> socks,
          timers |-> handleReconnect(client, tms).timers]
    ELSE [client |-> [client EXCEPT !.ws = Len(socks) + 1],
          sockets |-> Append(socks, [state |-> "CONNECTING", next |-> 0]),
          timers |-> tms]

\* disconnect(): the sockets and the client after it ran; close() on a socket
\* that is CLOSING or CLOSED does nothing; a socket that left OPEN carries no
\* further kline
disconnect(client, socks) ==
    IF client.ws = 0 THEN [client |-> client, sockets |-> socks]
    ELSE [client |-> [client EXCEPT !.ws = 0],
          sockets |-> IF socks[client.ws].state \in {"CONNECTING", "OPEN"}
                      THEN [socks EXCEPT ![client.ws] = [state |-> "CLOSING", next |-> 0]]
                      ELSE socks]

\* the effect of the component: initializeData() runs up to its first await,
\* the client is created and connect() is called
Mount(throws) ==
    /\ componentPc = "initial"
    /\ componentPc' = "mounted"
    /\ fetchPc' = "awaitingKlines"
    /\ wsClient' = connect(wsClient, sockets, timers, throws).client
    /\ sockets' = connect(wsClient, sockets, timers, throws).sockets
    /\ timers' = connect(wsClient, sockets, timers, throws).timers
    /\ UNCHANGED <<bars, now, priceUpdates,
                   aggVars, masterVars, riskVars, techVars, sentimentVars,
                   monitorVars, trendVars>>

\* the cleanup of the effect
Unmount ==
    /\ componentPc = "mounted"
    /\ componentPc' = "unmounted"
    /\ wsClient' = disconnect(wsClient, sockets).client
    /\ sockets' = disconnect(wsClient, sockets).sockets
    /\ UNCHANGED <<fetchPc, bars, now, timers, priceUpdates,
                   aggVars, masterVars, riskVars, techVars, sentimentVars,
                   monitorVars, trendVars>>

\* a minute ends at the exchange
Tick ==
    /\ now < MaxMinute
    /\ now' = now + 1
    /\ UNCHANGED <<componentPc, fetchPc, bars, sockets, wsClient, timers, priceUpdates,
                   aggVars, masterVars, riskVars, techVars, sentimentVars,
                   monitorVars, trendVars>>

\* await fetchBinanceKlines(symbol, '1h', 100) settles: setPriceData replaces
\* the bars, or the catch block runs; an unmounted component ignores setState
KlinesSettle(ok, includesOpen) ==
    /\ fetchPc = "awaitingKlines"
    /\ fetchPc' = IF ok THEN "awaitingStats" ELSE "failed"
    /\ bars' = IF ok /\ componentPc = "mounted"
               THEN fetchBinanceKlines(now, FetchLimit, includesOpen)
               ELSE bars
    /\ UNCHANGED <<componentPc, now, sockets, wsClient, timers, priceUpdates,
                   aggVars, masterVars, riskVars, techVars, sentimentVars,
                   monitorVars, trendVars>>

\* await fetch24hrStats(symbol) settles
StatsSettle(ok) ==
    /\ fetchPc = "awaitingStats"
    /\ fetchPc' = IF ok THEN "done" ELSE "failed"
    /\ UNCHANGED <<componentPc, bars, now, sockets, wsClient, timers, priceUpdates,
                   aggVars, masterVars, riskVars, techVars, sentimentVars,
                   monitorVars, trendVars>>

\* ws.onopen: the first closed kline the socket will carry is the one of the
\* minute open now
SocketOpens(s) ==
    /\ sockets[s].state = "CONNECTING"
    /\ sockets' = [sockets EXCEPT ![s] = [state |-> "OPEN", next |-> now]]
    /\ wsClient' = [wsClient EXCEPT !.reconnectAttempts = 0]
    /\ UNCHANGED <<componentPc, fetchPc, bars, now, timers, priceUpdates,
                   aggVars, masterVars, riskVars, techVars, sentimentVars,
                   monitorVars, trendVars>>

\* ws.onmessage with the kline of minute sockets[s].next, in order: an update
\* of the open kline (x false) is dropped; the closed kline (x true) is handed
\* to onPriceUpdate, which appends it to the last 99 bars
SocketMessage(s, x) ==
    /\ sockets[s].state = "OPEN"
    /\ IF x
       THEN /\ sockets[s].next < now
            /\ sockets' = [sockets EXCEPT ![s].next = @ + 1]
            /\ priceUpdates' = priceUpdates + 1
            /\ bars' = IF componentPc = "mounted"
                       THEN Append(SliceLast(bars, 99), MinuteCloseTime(sockets[s].next))
                       ELSE bars
       ELSE /\ sockets[s].next <= now
            /\ UNCHANGED <<sockets, priceUpdates, bars>>
    /\ UNCHANGED <<componentPc, fetchPc, now, wsClient, timers,
                   aggVars, masterVars, riskVars, techVars, sentimentVars,
                   monitorVars, trendVars>>

\* ws.onclose: the connection failed, was lost, or its closing handshake ended
SocketCloses(s) ==
    /\ sockets[s].state \in {"CONNECTING", "OPEN", "CLOSING"}
    /\ sockets' = [sockets EXCEPT ![s] = [state |-> "CLOSED", next |-> 0]]
    /\ wsClient' = handleReconnect(wsClient, timers).client
    /\ timers' = handleReconnect(wsClient, timers).timers
    /\ UNCHANGED <<componentPc, fetchPc, bars, now, priceUpdates,
                   aggVars, masterVars, riskVars, techVars, sentimentVars,
                   monitorVars, trendVars>>

\* the i-th pending timer of handleReconnect fires: connect()
ReconnectTimerFires(i, throws) ==
    /\ i \in 1..Len(timers)
    /\ throws \/ Len(sockets) < MaxSockets
    /\ LET rest == SubSeq(timers, 1, i - 1) \o SubSeq(timers, i + 1, Len(timers))
       IN  /\ wsClient' = connect(wsClient, sockets, rest, throws).client
           /\ sockets' = connect(wsClient, sockets, rest, throws).sockets
           /\ timers' = connect(wsClient, sockets, rest, throws).timers
    /\ UNCHANGED <<componentPc, fetchPc, bars, now, priceUpdates,
                   aggVars, masterVars, riskVars, techVars, sentimentVars,
                   monitorVars, trendVars>>

InitLive == InitCommon

NextLive ==
    \/ \E throws \in BOOLEAN : Mount(throws)
    \/ Unmount
    \/ Tick
    \/ \E ok \in BOOLEAN, includesOpen \in BOOLEAN : KlinesSettle(ok, includesOpen)
    \/ \E ok \in BOOLEAN : StatsSettle(ok)
    \/ \E s \in 1..Len(sockets) : SocketOpens(s)
    \/ \E s \in 1..Len(sockets), x \in BOOLEAN : SocketMessage(s, x)
    \/ \E s \in 1..Len(sockets) : SocketCloses(s)
    \/ \E i \in 1..Len(timers), throws \in BOOLEAN : ReconnectTimerFires(i, throws)

SpecLive == InitLive /\ [][NextLive]_vars

\* C23: the bars held by the component have strictly increasing timestamps.
C23_BarsStrictlyIncreasing ==
    \A i \in 1..Len(bars) - 1 : bars[i] < bars[i + 1]

\* C24: once disconnect() has been called (the component is unmounted), the
\* client creates no further WebSocket and invokes onPriceUpdate no more.
C24_NothingAfterDisconnect ==
    [][componentPc = "unmounted" =>
          /\ Len(sockets') = Len(sockets)
          /\ priceUpdates' = priceUpdates]_vars

\* a socket goes from CONNECTING to OPEN in this step
SomeSocketOpens ==
    \E s \in 1..Len(sockets) : sockets[s].state = "CONNECTING" /\ sockets'[s].state = "OPEN"

\* C25: reconnectAttempts stays within 0..5; it returns to 0 only in a step in
\* which a socket opens; a step taken with reconnectAttempts = 5 schedules no
\* reconnect; and the step that raises reconnectAttempts to k schedules one
\* reconnect with a delay of 2^k seconds.
C25_ReconnectionBounded ==
    /\ [](wsClient.reconnectAttempts \in 0..maxReconnectAttempts)
    /\ [][/\ (wsClient.reconnectAttempts # 0 /\ wsClient'.reconnectAttempts = 0)
                => SomeSocketOpens
          /\ wsClient.reconnectAttempts = maxReconnectAttempts
                => /\ Len(timers') <= Len(timers)
                   /\ \A i \in 1..Len(timers') : \E j \in 1..Len(timers) : timers'[i] = timers[j]
          /\ wsClient'.reconnectAttempts \notin {0, wsClient.reconnectAttempts}
                => /\ wsClient'.reconnectAttempts = wsClient.reconnectAttempts + 1
                   /\ Len(timers') >= 1
                   /\ timers'[Len(timers')] = Pow2(wsClient'.reconnectAttempts) * 1000]_vars

\* five reconnects in a row were scheduled and ran without any socket opening,
\* the last socket closed too, and no timer is pending
C25_Witness ==
    /\ wsClient.reconnectAttempts = maxReconnectAttempts
    /\ Len(sockets) = maxReconnectAttempts + 1
    /\ \A s \in 1..Len(sockets) : sockets[s].state = "CLOSED"
    /\ timers = <<>>

----------------------------------------------------------------------------
(* AutoTradingMonitor *)

\* The monitor is one record: the apiKey prop ("empty", "short" for fewer than
\* 10 characters, "valid"), the React state, the two refs, the number of
\* interval timers alive for each kind, the runAnalysis calls indexed by their
\* start order, and the clock read by new Date(). The effect of a render is
\* executed in the step that commits the state change.

MaxRuns == 3
MaxInFlight == 2
MaxCountdown == 2

\* runs that ended before the behaviour starts
PriorRuns == 9

\* ANALYSIS_INTERVAL / 1000
AnalysisIntervalSeconds == 300

\* what generateRealTimeAISignal resolves with, as far as
\* generateTradeRecommendation reads it
AiSignals ==
    {[signal |-> "STRONG_BUY", confidence |-> 85, accuracy |-> 80, volatility |-> 1],
     [signal |-> "NEUTRAL", confidence |-> 50, accuracy |-> 60, volatility |-> 3]}

Includes(signal, word) ==
    IF word = "BUY" THEN signal \in {"BUY", "STRONG_BUY"}
    ELSE signal \in {"STRONG_BUY", "STRONG_SELL"}

generateTradeRecommendation(signal) ==
    LET shouldTrade ==
            signal.signal # "NEUTRAL" /\ signal.confidence > 65 /\ signal.accuracy > 70
    IN  [shouldTrade |-> shouldTrade,
         action |-> IF ~shouldTrade THEN "WAIT"
                    ELSE IF Includes(signal.signal, "BUY") THEN "BUY" ELSE "SELL",
         urgency |-> IF ~shouldTrade THEN "LOW"
                     ELSE IF Includes(signal.signal, "STRONG") /\ signal.confidence > 80
                          THEN "HIGH"
                     ELSE IF signal.confidence > 70 THEN "MEDIUM" ELSE "LOW",
         riskLevel |-> IF ~shouldTrade THEN "EXTREME"
                       ELSE IF signal.volatility < 2 /\ signal.confidence > 75 THEN "LOW"
                       ELSE IF signal.volatility > 4 \/ signal.confidence < 65 THEN "HIGH"
                       ELSE "MEDIUM"]

\* the signal and the recommendation a run resolved with, tagged with the run
SignalOf(run, signal) ==
    [run |-> run, signal |-> signal.signal, confidence |-> signal.confidence,
     accuracy |-> signal.accuracy, liveDataSource |-> TRUE]

RecommendationOf(run, signal) ==
    [run |-> run,
     shouldTrade |-> generateTradeRecommendation(signal).shouldTrade,
     action |-> generateTradeRecommendation(signal).action,
     urgency |-> generateTradeRecommendation(signal).urgency,
     riskLevel |-> generateTradeRecommendation(signal).riskLevel]

historyEntry(run, signal, date) ==
    [signal |-> SignalOf(run, signal),
     recommendation |-> RecommendationOf(run, signal),
     timestamp |-> date]

\* the entry built in the catch block of runAnalysis
errorEntry(run, date) ==
    [signal |-> [run |-> run, signal |-> "NEUTRAL", confidence |-> 0,
                 accuracy |-> 0, liveDataSource |-> FALSE],
     recommendation |-> [run |-> run, shouldTrade |-> FALSE, action |-> "WAIT",
                         urgency |-> "LOW", riskLevel |-> "EXTREME"],
     timestamp |-> date]

\* [entry, ...prev.slice(0, 9)] without the slice
addToHistory_unbounded(entry, prev) == <<entry>> \o prev

\* [entry, ...prev.slice(0, 9)]
addToHistory(entry, prev) ==
    <<entry>> \o SubSeq(prev, 1, IF Len(prev) < 9 THEN Len(prev) ELSE 9)

\* stopAutoAnalysis() that leaves the interval timer running
stopAutoAnalysis_leaking(m) ==
    [m EXCEPT !.intervalRef = FALSE,
              !.countdowns = IF m.countdownRef THEN @ - 1 ELSE @,
              !.countdownRef = FALSE,
              !.nextUpdateIn = 0]

stopAutoAnalysis(m) ==
    [m EXCEPT !.intervals = IF m.intervalRef THEN @ - 1 ELSE @,
              !.intervalRef = FALSE,
              !.countdowns = IF m.countdownRef THEN @ - 1 ELSE @,
              !.countdownRef = FALSE,
              !.nextUpdateIn = 0]

\* runAnalysis() up to its first await
runAnalysis(m) ==
    IF m.apiKey \in {"empty", "short"}
    THEN [m EXCEPT !.isActive = FALSE]
    ELSE [m EXCEPT !.isAnalyzing = TRUE,
                   !.analysisCount = @ + 1,
                   !.runs = Append(@, "awaitingKlines")]

startCountdown(m) ==
    [m EXCEPT !.nextUpdateIn = AnalysisIntervalSeconds,
              !.countdowns = @ + 1,
              !.countdownRef = TRUE]

startAutoAnalysis(m) ==
    startCountdown([runAnalysis(m) EXCEPT !.intervals = @ + 1, !.intervalRef = TRUE])

\* the effect on [isActive, apiKey]: the cleanup of the previous run of the
\* effect, then its body
autoAnalysisEffect(m) ==
    IF m.isActive /\ m.apiKey # "empty"
    THEN startAutoAnalysis(stopAutoAnalysis(m))
    ELSE stopAutoAnalysis(stopAutoAnalysis(m))

\* the render that follows a step from m to next: the effect runs when
\* isActive or apiKey changed, and once more when the effect itself changed
\* isActive (runAnalysis with an unusable key)
Commit(m, next) ==
    IF m.isActive = next.isActive /\ m.apiKey = next.apiKey THEN next
    ELSE IF autoAnalysisEffect(next).isActive = next.isActive
         THEN autoAnalysisEffect(next)
         ELSE autoAnalysisEffect(autoAnalysisEffect(next))

InFlight(m) == {r \in 1..Len(m.runs) : m.runs[r] \in {"awaitingKlines", "awaitingSignal"}}

\* at most MaxRuns calls start in a behaviour, with at most MaxInFlight of them
\* in flight at a time
MayStartRun(m) ==
    /\ m.analysisCount \notin {MaxRuns, PriorRuns + MaxRuns}
    /\ Cardinality(InFlight(m)) < MaxInFlight

MonitorStep(next) ==
    /\ MayStartRun(monitor) \/ Commit(monitor, next).analysisCount = monitor.analysisCount
    /\ monitor' = Commit(monitor, next)
    /\ UNCHANGED <<aggVars, masterVars, riskVars, techVars, sentimentVars, liveVars, trendVars>>

\* the Switch, enabled with a valid key only
ToggleAutoAnalysis ==
    /\ monitor.apiKey = "valid"
    /\ MonitorStep([monitor EXCEPT !.isActive = ~@])

\* the parent renders the monitor with another apiKey
ChangeApiKey(key) ==
    /\ key # monitor.apiKey
    /\ MonitorStep([monitor EXCEPT !.apiKey = key])

\* the callback of the analysis interval
IntervalFires ==
    /\ monitor.intervals > 0
    /\ MonitorStep(runAnalysis(monitor))

\* the manual-run button, rendered when active and disabled while analyzing
ManualRun ==
    /\ monitor.isActive
    /\ ~monitor.isAnalyzing
    /\ MonitorStep(runAnalysis(monitor))

\* the callback of the countdown interval
CountdownTick ==
    /\ monitor.countdowns > 0
    /\ monitor.nextUpdateIn > AnalysisIntervalSeconds - MaxCountdown
    /\ MonitorStep([monitor EXCEPT !.nextUpdateIn =
                        IF @ <= 1 THEN AnalysisIntervalSeconds ELSE @ - 1])

\* the catch and finally blocks of run r
RunFails(m, r) ==
    [m EXCEPT !.runs[r] = "failed",
              !.clock = @ + 1,
              !.signalHistory = addToHistory(errorEntry(r, m.clock + 1), @),
              !.isAnalyzing = FALSE]

\* await fetchBinanceKlines(...) of run r settles; with the candles
\* generateRealTimeAISignal is called
RunKlinesSettle(r, ok) ==
    /\ r \in 1..Len(monitor.runs)
    /\ monitor.runs[r] = "awaitingKlines"
    /\ MonitorStep(IF ok THEN [monitor EXCEPT !.runs[r] = "awaitingSignal"]
                   ELSE RunFails(monitor, r))

\* await generateRealTimeAISignal(...) of run r settles
RunSignalSettles(r, ok, signal) ==
    /\ r \in 1..Len(monitor.runs)
    /\ monitor.runs[r] = "awaitingSignal"
    /\ MonitorStep(IF ok
                   THEN [monitor EXCEPT
                            !.runs[r] = "succeeded",
                            !.clock = @ + 1,
                            !.currentSignal = SignalOf(r, signal),
                            !.currentRecommendation = RecommendationOf(r, signal),
                            !.signalHistory =
                                addToHistory(historyEntry(r, signal, monitor.clock + 1), @),
                            !.isAnalyzing = FALSE]
                   ELSE RunFails(monitor, r))

ApiKeys == {"empty", "short", "valid"}

NextMonitor ==
    \/ ToggleAutoAnalysis
    \/ \E key \in ApiKeys : ChangeApiKey(key)
    \/ ManualRun
    \/ IntervalFires
    \/ CountdownTick
    \/ \E r \in 1..Len(monitor.runs), ok \in BOOLEAN : RunKlinesSettle(r, ok)
    \/ \E r \in 1..Len(monitor.runs), ok \in BOOLEAN, signal \in AiSignals :
           RunSignalSettles(r, ok, signal)

\* the monitor after its first render and the first run of the effect
MountedMonitor(key, isEnabled) ==
    LET first == [FreshMonitor(key) EXCEPT !.isActive = isEnabled]
    IN  IF autoAnalysisEffect(first).isActive = first.isActive
        THEN autoAnalysisEffect(first)
        ELSE autoAnalysisEffect(autoAnalysisEffect(first))

InitMonitor ==
    /\ InitExceptMonitor
    /\ \E key \in ApiKeys, isEnabled \in BOOLEAN : monitor = MountedMonitor(key, isEnabled)

SpecMonitor == InitMonitor /\ [][NextMonitor]_vars

\* the monitor after PriorRuns runs that all failed, deactivated since
SeasonedMonitor ==
    [FreshMonitor("valid") EXCEPT
        !.signalHistory = [i \in 1..PriorRuns |->
                              errorEntry(PriorRuns + 1 - i, PriorRuns + 1 - i)],
        !.analysisCount = PriorRuns,
        !.runs = [r \in 1..PriorRuns |-> "failed"],
        !.clock = PriorRuns]

InitMonitorLong == InitExceptMonitor /\ monitor = SeasonedMonitor

SpecMonitorLong == InitMonitorLong /\ [][NextMonitor]_vars

\* C26: currentSignal is never replaced by the result of a run that started
\* before the run whose result it holds, and currentSignal and
\* currentRecommendation always come from the same run.
C26_NewestRunWins ==
    /\ [](monitor.currentSignal # NoSignal =>
             /\ monitor.currentRecommendation # NoRecommendation
             /\ monitor.currentRecommendation.run = monitor.currentSignal.run)
    /\ [][(monitor.currentSignal # NoSignal /\ monitor'.currentSignal # NoSignal)
             => monitor'.currentSignal.run >= monitor.currentSignal.run]_vars

\* C27: isAnalyzing is true whenever a runAnalysis call is in flight.
C27_AnalyzingWhileInFlight ==
    InFlight(monitor) # {} => monitor.isAnalyzing

\* C28: at most one analysis interval timer and at most one countdown timer
\* are alive, and none of either kind when isActive is false or apiKey is
\* empty.
C28_AtMostOneTimer ==
    /\ monitor.intervals \in 0..1
    /\ monitor.countdowns \in 0..1
    /\ (~monitor.isActive \/ monitor.apiKey = "empty") =>
           monitor.intervals = 0 /\ monitor.countdowns = 0

\* deactivated while a run of the active period is still in flight
C28_Witness ==
    /\ ~monitor.isActive
    /\ InFlight(monitor) # {}
    /\ monitor.intervals = 0
    /\ monitor.intervalRef = FALSE

\* the entries of a history, newest first
NewestFirst(history) ==
    \A i \in 1..Len(history) - 1 : history[i].timestamp > history[i + 1].timestamp

IsErrorEntry(entry) ==
    /\ entry.signal.signal = "NEUTRAL"
    /\ entry.recommendation.shouldTrade = FALSE
    /\ entry.recommendation.riskLevel = "EXTREME"
    /\ entry.signal.liveDataSource = FALSE

\* C29: signalHistory holds at most 10 entries, newest completed first; the
\* step in which a run fails puts one NEUTRAL, shouldTrade = false, EXTREME
\* entry of that run at the head, keeps the 9 newest of the entries before it,
\* and leaves currentSignal unchanged.
C29_HistoryBoundedAndOrdered ==
    /\ [](Len(monitor.signalHistory) <= 10 /\ NewestFirst(monitor.signalHistory))
    /\ [][\A r \in InFlight(monitor) :
             monitor'.runs[r] = "failed" =>
                /\ Len(monitor'.signalHistory) >= 1
                /\ IsErrorEntry(monitor'.signalHistory[1])
                /\ monitor'.signalHistory[1].signal.run = r
                /\ Tail(monitor'.signalHistory) =
                       SubSeq(monitor.signalHistory, 1,
                              IF Len(monitor.signalHistory) < 9
                              THEN Len(monitor.signalHistory) ELSE 9)
                /\ monitor'.currentSignal = monitor.currentSignal]_vars

\* a failed run pushed the oldest entry out of a full history that also holds
\* the result of a successful run
C29_Witness ==
    /\ Len(monitor.signalHistory) = 10
    /\ monitor.analysisCount > 10
    /\ \A r \in 1..Len(monitor.runs) : monitor.runs[r] \in {"failed", "succeeded"}
    /\ IsErrorEntry(monitor.signalHistory[1])
    /\ \E i \in 2..10 : ~IsErrorEntry(monitor.signalHistory[i])
    /\ monitor.currentSignal # NoSignal

----------------------------------------------------------------------------
(* analyzeTrend and analyzeRealMarketStructure *)

\* Windows of closes of lengths generateRealTimeAISignal accepts (20 bars and
\* more) that are shorter than 50 bars: every close at BasePrice but the last two, as in KlineWindow; the
\* high and the low of a bar equal its close.
MaxTrendBars == 49
TrendLengths == 20..MaxTrendBars

TrendWindows ==
    {KlineWindow(n, t, BaseVolume).closes : n \in TrendLengths, t \in Tails}

\* data.reduce((a, b) => a + b) on a non-empty array; the sum of exact
\* fractions does not depend on the grouping, so it is added up by halves
RECURSIVE ReduceSum(_)
ReduceSum(data) ==
    IF Len(data) = 1 THEN data[1]
    ELSE LET half == Len(data) \div 2
         IN  FAdd(ReduceSum(SubSeq(data, 1, half)),
                  ReduceSum(SubSeq(data, half + 1, Len(data))))

\* closes.slice(-period).reduce((a, b) => a + b) / period
SlicedAverage(closes, period) ==
    FDiv(ReduceSum(SliceLast(closes, period)), Int2Num(period))

\* the arithmetic mean of the closes that closes.slice(-period) holds
SlicedAverage_mean(closes, period) ==
    FDiv(ReduceSum(SliceLast(closes, period)), Int2Num(Len(SliceLast(closes, period))))

\* lows.slice(-20).sort((a, b) => a - b)[0] and highs.slice(-20).sort((a, b) => b - a)[0]
MinOf(data) ==
    CHOOSE x \in {data[i] : i \in 1..Len(data)} :
        \A i \in 1..Len(data) : FLeq(x, data[i])

MaxOf(data) ==
    CHOOSE x \in {data[i] : i \in 1..Len(data)} :
        \A i \in 1..Len(data) : FGeq(x, data[i])

analyzeTrend(closes) ==
    LET sma20 == SlicedAverage(closes, 20)
        sma50 == SlicedAverage(closes, 50)
        currentPrice == LastOf(closes)
    IN  IF FGt(currentPrice, sma20) /\ FGt(sma20, sma50)
        THEN [direction |-> "UPTREND",
              strength |-> FMin(Int2Num(100),
                                FMul(FDiv(FSub(currentPrice, sma50), sma50), Int2Num(1000)))]
        ELSE IF FLt(currentPrice, sma20) /\ FLt(sma20, sma50)
        THEN [direction |-> "DOWNTREND",
              strength |-> FMin(Int2Num(100),
                                FMul(FDiv(FSub(sma50, currentPrice), sma50), Int2Num(1000)))]
        ELSE [direction |-> "SIDEWAYS", strength |-> Int2Num(20)]

\* analyzeRealMarketStructure on flat bars: high = low = close on every bar
marketStructureOf(closes) ==
    LET sma20 == SlicedAverage(closes, 20)
        sma50 == SlicedAverage(closes, 50)
        currentPrice == LastOf(closes)
        trendStrength == FMul(FAbs(FDiv(FSub(sma20, sma50), sma50)), Int2Num(100))
    IN  [trend |-> IF FGt(currentPrice, sma20) /\ FGt(sma20, sma50) THEN "UPTREND"
                   ELSE IF FLt(currentPrice, sma20) /\ FLt(sma20, sma50) THEN "DOWNTREND"
                   ELSE "SIDEWAYS",
         strength |-> FMin(Int2Num(100), FMul(trendStrength, Int2Num(10))),
         support |-> MinOf(SliceLast(closes, 20)),
         resistance |-> MaxOf(SliceLast(closes, 20)),
         consolidating |-> FLt(trendStrength, Int2Num(2))]

\* the caller holds the fetched price window
LoadCloses(closes) ==
    /\ trendCloses = <<>>
    /\ trendCloses' = closes
    /\ UNCHANGED <<trendResult, structureResult, aggVars, masterVars, riskVars, techVars,
                   sentimentVars, liveVars, monitorVars>>

AnalyzeTrend ==
    /\ trendCloses # <<>>
    /\ trendResult = NoTrend
    /\ trendResult' = analyzeTrend(trendCloses)
    /\ UNCHANGED <<trendCloses, structureResult, aggVars, masterVars, riskVars, techVars,
                   sentimentVars, liveVars, monitorVars>>

AnalyzeRealMarketStructure ==
    /\ trendCloses # <<>>
    /\ structureResult = NoStructure
    /\ structureResult' = marketStructureOf(trendCloses)
    /\ UNCHANGED <<trendCloses, trendResult, aggVars, masterVars, riskVars, techVars,
                   sentimentVars, liveVars, monitorVars>>

InitTrend == InitCommon

NextTrend ==
    \/ \E closes \in TrendWindows : LoadCloses(closes)
    \/ AnalyzeTrend
    \/ AnalyzeRealMarketStructure

SpecTrend == InitTrend /\ [][NextTrend]_vars

IsConstant(closes) == \A i \in 1..Len(closes) : closes[i] = closes[1]

\* C30: on a window of 20 to 49 bars that was analysed, the SMA(50) value that
\* analyzeTrend and analyzeRealMarketStructure compare with SMA(20) is the
\* arithmetic mean of the closes it sums, and a constant window is not
\* classified as UPTREND.
C30_Sma50IsMeanOfSummedCloses ==
    (trendCloses # <<>> /\ Len(trendCloses) < 50 /\ (trendResult # NoTrend \/ structureResult # NoStructure))
        => /\ SlicedAverage(trendCloses, 50) = SlicedAverage_mean(trendCloses, 50)
           /\ IsConstant(trendCloses) => trendResult.direction # "UPTREND" /\ structureResult.trend # "UPTREND"

====
